---- MODULE Spec2Model ----
(***************************************************************************)
(* Message routing and course matching of the IAA WhatsApp chatbot         *)
(* (src/webhook/domain-definitions.js, with the Meta Cloud API client).    *)
(*                                                                         *)
(* JavaScript strings are modelled as sequences of one-character strings,  *)
(* so that toLowerCase, trim, includes, startsWith and the regular         *)
(* expressions of the source are computed character by character.          *)
(***************************************************************************)
EXTENDS Integers, Sequences, FiniteSets, TLC

(***************************************************************************)
(* String primitives of the JavaScript runtime                             *)
(***************************************************************************)
UpperChars ==
  <<"A","B","C","D","E","F","G","H","I","J","K","L","M",
    "N","O","P","Q","R","S","T","U","V","W","X","Y","Z">>

LowerChars ==
  <<"a","b","c","d","e","f","g","h","i","j","k","l","m",
    "n","o","p","q","r","s","t","u","v","w","x","y","z">>

DigitChars ==
  <<"0","1","2","3","4","5","6","7","8","9">>

Range(s) ==
  {s[i] : i \in DOMAIN s}

\* the characters String.prototype.trim and the regex class \s remove
WhiteSpace ==
  {" ", "\t", "\n"}

\* the regex class \w
WordChars ==
  Range(UpperChars) \cup Range(LowerChars) \cup Range(DigitChars) \cup {"_"}

Digits ==
  Range(DigitChars)

\* the upper-case letters with their lower-case forms
LowerOf ==
  [c \in {UpperChars[i] : i \in DOMAIN UpperChars} |->
     LowerChars[CHOOSE i \in DOMAIN UpperChars : UpperChars[i] = c]]

ToLowerChar(c) ==
  IF c \in DOMAIN LowerOf THEN LowerOf[c] ELSE c

\* String.prototype.toLowerCase
ToLowerCase(s) ==
  [i \in 1..Len(s) |-> ToLowerChar(s[i])]

RECURSIVE TrimStart(_)
TrimStart(s) ==
  IF s # << >> /\ Head(s) \in WhiteSpace THEN TrimStart(Tail(s)) ELSE s

RECURSIVE TrimEnd(_)
TrimEnd(s) ==
  IF s # << >> /\ s[Len(s)] \in WhiteSpace
    THEN TrimEnd(SubSeq(s, 1, Len(s) - 1))
    ELSE s

\* String.prototype.trim
Trim(s) ==
  TrimEnd(TrimStart(s))

\* String.prototype.startsWith
StartsWith(s, p) ==
  Len(p) <= Len(s) /\ \A j \in 1..Len(p) : s[j] = p[j]

\* s.substring(i-1, i-1+Len(p)) === p
MatchesAt(s, p, i) ==
  /\ i + Len(p) - 1 <= Len(s)
  /\ \A j \in 1..Len(p) : s[i + j - 1] = p[j]

\* String.prototype.includes
Includes(s, p) ==
  \E i \in 1..(Len(s) - Len(p) + 1) : MatchesAt(s, p, i)

\* the regex assertion \b between s[p-1] and s[p]
IsWordAt(s, k) ==
  k \in 1..Len(s) /\ s[k] \in WordChars

WordBoundary(s, p) ==
  IsWordAt(s, p - 1) # IsWordAt(s, p)

\* new RegExp(`\\b${word}\\b`, 'i').test(s), for a word without regex
\* metacharacters (every key of shortFormMap, and "form")
WordBoundaryTest(word, s) ==
  LET lowerS == ToLowerCase(s)
      lowerWord == ToLowerCase(word)
  IN  \E i \in 1..(Len(s) - Len(word) + 1) :
        /\ MatchesAt(lowerS, lowerWord, i)
        /\ WordBoundary(s, i)
        /\ WordBoundary(s, i + Len(word))

IsDigits(s) ==
  s # << >> /\ \A i \in DOMAIN s : s[i] \in Digits

DigitValue(c) ==
  (CHOOSE i \in DOMAIN DigitChars : DigitChars[i] = c) - 1

\* parseInt of a string of decimal digits
RECURSIVE ParseInt(_)
ParseInt(s) ==
  IF s = << >> THEN 0
  ELSE 10 * ParseInt(SubSeq(s, 1, Len(s) - 1)) + DigitValue(s[Len(s)])

\* s.replace(/\D/g, '') and s.replace(/[^0-9]/g, '')
RECURSIVE KeepDigits(_)
KeepDigits(s) ==
  IF s = << >> THEN << >>
  ELSE IF Head(s) \in Digits
    THEN <<Head(s)>> \o KeepDigits(Tail(s))
    ELSE KeepDigits(Tail(s))

(***************************************************************************)
(* The Domain Directory course names used as catalog names                 *)
(***************************************************************************)

SafetyManagementSystemSMS ==
  <<"S","a","f","e","t","y"," ","M","a","n","a","g","e","m","e","n","t"," ","S","y","s","t","e","m","(","S","M","S",")">>

GeMProcurement ==
  <<"G","e","M"," ","P","r","o","c","u","r","e","m","e","n","t">>

StressManagement ==
  <<"S","t","r","e","s","s"," ","M","a","n","a","g","e","m","e","n","t">>

CommercialContractManagement ==
  <<"C","o","m","m","e","r","c","i","a","l"," ","C","o","n","t","r","a","c","t"," ","m","a","n","a","g","e","m","e","n","t">>

ContractManagement ==
  <<"C","o","n","t","r","a","c","t"," ","M","a","n","a","g","e","m","e","n","t">>

AirportEmergencyPlanning ==
  <<"A","i","r","p","o","r","t"," ","E","m","e","r","g","e","n","c","y"," ","P","l","a","n","n","i","n","g"," "," ","&"," ","D","i","s","a","b","l","e","d"," ","A","i","r","c","r","a","f","t"," ","R","e","m","o","v","a","l">>

RunwayRubberRemovalRRR ==
  <<"R","u","n","w","a","y"," ","R","u","b","b","e","r"," ","R","e","m","o","v","a","l","(","R","R","R",")">>

HumanFactors ==
  <<"H","u","m","a","n"," ","F","a","c","t","o","r","s">>

DataAnalyticsUsingPowerBi ==
  <<"D","a","t","a"," ","A","n","a","l","y","t","i","c","s"," ","u","s","i","n","g"," ","P","o","w","e","r"," ","B","i">>

(***************************************************************************)
(* Message texts, keywords and sender numbers                              *)
(***************************************************************************)

T_test ==
  <<"t","e","s","t">>

T_Hi ==
  <<"H","i">>

T_registrationForm ==
  <<"r","e","g","i","s","t","r","a","t","i","o","n"," ","f","o","r","m">>

T_format ==
  <<"f","o","r","m","a","t">>

T_showAllCourses ==
  <<"s","h","o","w"," ","a","l","l"," ","c","o","u","r","s","e","s">>

T_domain1 ==
  <<"d","o","m","a","i","n"," ","1">>

T_domain9 ==
  <<"d","o","m","a","i","n"," ","9">>

T_3 ==
  <<"3">>

T_7 ==
  <<"7">>

T_course3 ==
  <<"c","o","u","r","s","e"," ","3">>

T_thanks ==
  <<"t","h","a","n","k","s">>

T_thankYouForInfo ==
  <<"t","h","a","n","k"," ","y","o","u"," ","f","o","r"," ","i","n","f","o"," ","o","n"," ","S","a","f","e","t","y"," ","M","a","n","a","g","e","m","e","n","t"," ","S","y","s","t","e","m">>

T_thanksForm ==
  <<"t","h","a","n","k","s"," ","f","o","r"," ","t","h","e"," ","r","e","g","i","s","t","r","a","t","i","o","n"," ","f","o","r","m"," ","f","o","r"," ","G","e","M"," ","P","r","o","c","u","r","e","m","e","n","t">>

T_byeCourses ==
  <<"b","y","e",","," ","s","h","o","w"," ","a","l","l"," ","c","o","u","r","s","e","s"," ","o","n"," ","G","e","M"," ","P","r","o","c","u","r","e","m","e","n","t">>

T_safetyManagementSystem ==
  <<"S","a","f","e","t","y"," ","M","a","n","a","g","e","m","e","n","t"," ","S","y","s","t","e","m">>

T_gem ==
  <<"g","e","m">>

T_sms ==
  <<"s","m","s">>

T_removal ==
  <<"r","e","m","o","v","a","l">>

T_management ==
  <<"m","a","n","a","g","e","m","e","n","t">>

T_feesForSMS ==
  <<"W","h","a","t"," ","a","r","e"," ","t","h","e"," ","f","e","e","s"," ","f","o","r"," ","S","M","S","?">>

T_misspelled ==
  <<"s","a","f","t","e","y"," ","m","a","n","a","g","m","e","n","t">>

T_xyzzy ==
  <<"x","y","z","z","y"," ","c","o","u","r","s","e"," ","n","o","b","o","d","y"," ","o","f","f","e","r","s">>

T_x ==
  <<"x">>

T_angle ==
  <<" ","<",">"," ">>

T_constructor ==
  <<"c","o","n","s","t","r","u","c","t","o","r">>

T_gemVsSms ==
  <<"g","e","m"," ","v","s"," ","s","m","s">>

T_typo ==
  <<"s","t","r","e","s"," ","m","a","n","a","g","m","e","n","t">>

T_gemVsBi ==
  <<"g","e","m"," ","v","s"," ","b","i">>

T_informPlease ==
  <<"i","n","f","o","r","m"," ","p","l","e","a","s","e">>

T_platformLink ==
  <<"p","l","a","t","f","o","r","m"," ","l","i","n","k">>

T_compareGem ==
  <<"c","o","m","p","a","r","e"," ","g","e","m">>

T_smsSpaced ==
  <<"S","a","f","e","t","y"," ","M","a","n","a","g","e","m","e","n","t"," ","S","y","s","t","e","m"," ","(","S","M","S",")">>

T_smsLower ==
  <<"s","a","f","e","t","y"," ","m","a","n","a","g","e","m","e","n","t"," ","s","y","s","t","e","m","(","s","m","s",")">>

T_smsPadded ==
  <<" ","S","M","S"," ">>

T_1 ==
  <<"1">>

T_domain3 ==
  <<"d","o","m","a","i","n"," ","3">>

T_03 ==
  <<"0","3">>

T_0 ==
  <<"0">>

K_test ==
  <<"t","e","s","t">>

K_hi ==
  <<"h","i">>

K_hello ==
  <<"h","e","l","l","o">>

K_hey ==
  <<"h","e","y">>

K_hii ==
  <<"h","i","i">>

K_helo ==
  <<"h","e","l","o">>

K_form ==
  <<"f","o","r","m">>

K_course ==
  <<"c","o","u","r","s","e">>

K_domain ==
  <<"d","o","m","a","i","n">>

K_showAllCourses ==
  <<"s","h","o","w"," ","a","l","l"," ","c","o","u","r","s","e","s">>

K_listAllCourses ==
  <<"l","i","s","t"," ","a","l","l"," ","c","o","u","r","s","e","s">>

K_allCourses ==
  <<"a","l","l"," ","c","o","u","r","s","e","s">>

K_courses ==
  <<"c","o","u","r","s","e","s">>

U1_raw ==
  <<"+","9","1"," ","9","0","0","0","0"," ","0","0","0","0","1">>

U2_raw ==
  <<"9","1","9","0","0","0","0","0","0","0","0","2">>

ShortPhone_raw ==
  <<"1","2","3","4","5">>

formKeywords ==
  << <<"f","o","r","m"," ","p","l","e","a","s","e">>,
     <<"g","i","v","e"," ","f","o","r","m">>,
     <<"s","e","n","d"," ","f","o","r","m">>,
     <<"f","o","r","m"," ","l","i","n","k">>,
     <<"f","o","r","m"," ","u","r","l">>,
     <<"r","e","g","i","s","t","r","a","t","i","o","n"," ","f","o","r","m">>,
     <<"a","p","p","l","i","c","a","t","i","o","n"," ","f","o","r","m">>,
     <<"e","n","r","o","l","l","m","e","n","t"," ","f","o","r","m">> >>

goodbyeKeywords ==
  << <<"t","h","a","n","k"," ","y","o","u">>,
     <<"t","h","a","n","k","s">>,
     <<"t","h","a","n","k","y","o","u">>,
     <<"t","h","x">>,
     <<"t","y">>,
     <<"g","o","o","d","b","y","e">>,
     <<"b","y","e">>,
     <<"g","o","o","d"," ","b","y","e">>,
     <<"s","e","e"," ","y","o","u">>,
     <<"s","e","e"," ","y","a">>,
     <<"t","a","t","a">>,
     <<"t","a","t","a"," ","b","y","e">>,
     <<"b","y","e"," ","b","y","e">>,
     <<"t","a","k","e"," ","c","a","r","e">>,
     <<"h","a","v","e"," ","a"," ","g","o","o","d"," ","d","a","y">>,
     <<"h","a","v","e"," ","a"," ","n","i","c","e"," ","d","a","y">>,
     <<"g","o","o","d"," ","d","a","y">>,
     <<"a","p","p","r","e","c","i","a","t","e">>,
     <<"g","r","a","t","e","f","u","l">>,
     <<"m","u","c","h"," ","a","p","p","r","e","c","i","a","t","e","d">> >>

comparisonKeywords ==
  << <<"v","s">>,
     <<"v","e","r","s","u","s">>,
     <<"b","e","t","w","e","e","n">>,
     <<"c","o","m","p","a","r","e">>,
     <<"c","o","m","p","a","r","i","s","o","n">> >>

(***************************************************************************)
(* findCourseByPartialName: the synonym table                              *)
(***************************************************************************)
shortFormMap ==
  <<
     <<<<"d","e","m">>,
       <<"D","e","m","o">>>>,
     <<<<"s","m","s">>,
       <<"S","a","f","e","t","y"," ","M","a","n","a","g","e","m","e","n","t"," ","S","y","s","t","e","m","(","S","M","S",")">>>>,
     <<<<"d","o","p">>,
       <<"D","e","l","e","g","a","t","i","o","n"," ","o","f"," ","P","o","w","e","r","(","D","O","P",")">>>>,
     <<<<"r","r","r">>,
       <<"R","u","n","w","a","y"," ","R","u","b","b","e","r"," ","R","e","m","o","v","a","l">>>>,
     <<<<"g","e","m">>,
       <<"G","e","M"," ","P","r","o","c","u","r","e","m","e","n","t">>>>,
     <<<<"b","i">>,
       <<"D","a","t","a"," ","A","n","a","l","y","t","i","c","s"," ","u","s","i","n","g"," ","P","o","w","e","r"," ","B","i">>>>,
     <<<<"p","b","i">>,
       <<"D","a","t","a"," ","A","n","a","l","y","t","i","c","s"," ","u","s","i","n","g"," ","P","o","w","e","r"," ","B","i">>>>,
     <<<<"g","s","t">>,
       <<"G","o","o","d","s"," ","a","n","d"," ","S","e","r","v","i","c","e","s"," ","T","a","x">>>>,
     <<<<"a","p","d">>,
       <<"A","P","D"," ","P","r","o","f","e","s","s","i","o","n","a","l"," ","C","o","m","p","e","t","e","n","c","y"," ","D","e","v","e","l","o","p","m","e","n","t">>>>,
     <<<<"a","p","m">>,
       <<"A","i","r","f","i","e","l","d"," ","p","a","v","e","m","e","n","t"," ","M","a","r","k","i","n","g">>>>,
     <<<<"p","o","s","h">>,
       <<"P","r","e","v","e","n","t","i","o","n"," ","o","f"," ","S","e","x","u","a","l"," ","H","a","r","a","s","s","m","e","n","t">>>>,
     <<<<"r","t","i">>,
       <<"R","i","g","h","t"," ","t","o"," ","I","n","f","o","r","m","a","t","i","o","n">>>>,
     <<<<"a","g","l">>,
       <<"A","i","r","f","i","e","l","d"," ","G","r","o","u","n","d"," ","L","i","g","h","t","i","n","g">>>>,
     <<<<"p","w","s">>,
       <<"P","r","e","c","i","s","i","o","n"," ","W","e","a","t","h","e","r"," ","S","y","s","t","e","m">>>>,
     <<<<"n","o","c">>,
       <<"N","o","t","i","c","e"," ","o","f"," ","C","h","a","n","g","e">>>>,
     <<<<"h","v">>,
       <<"H","i","g","h"," ","V","o","l","t","a","g","e">>>>,
     <<<<"a","c">>,
       <<"A","i","r"," ","C","o","n","d","i","t","i","o","n","i","n","g">>>>,
     <<<<"e","c","b","c">>,
       <<"E","n","e","r","g","y"," ","C","o","n","s","e","r","v","a","t","i","o","n"," ","B","u","i","l","d","i","n","g"," ","C","o","d","e">>>>,
     <<<<"e","&","m">>,
       <<"E","l","e","c","t","r","i","c","a","l"," ","a","n","d"," ","M","e","c","h","a","n","i","c","a","l">>>>,
     <<<<"a","n","n","e","x","-","1","4">>,
       <<"A","n","n","e","x","-","1","4">>>>,
     <<<<"a","n","n","e","x","-","9">>,
       <<"A","n","n","e","x","-","9">>>>,
     <<<<"a","t","m">>,
       <<"A","i","r","p","o","r","t"," ","T","e","r","m","i","n","a","l"," ","M","a","n","a","g","e","m","e","n","t">>>>,
     <<<<"p","r","o","c","u","r","e","m","e","n","t">>,
       <<"G","e","M"," ","P","r","o","c","u","r","e","m","e","n","t">>>>,
     <<<<"s","a","f","e","t","y">>,
       <<"S","a","f","e","t","y"," ","M","a","n","a","g","e","m","e","n","t"," ","S","y","s","t","e","m","(","S","M","S",")">>>>,
     <<<<"p","o","w","e","r">>,
       <<"D","a","t","a"," ","A","n","a","l","y","t","i","c","s"," ","u","s","i","n","g"," ","P","o","w","e","r"," ","B","i">>>>,
     <<<<"a","n","a","l","y","t","i","c","s">>,
       <<"D","a","t","a"," ","A","n","a","l","y","t","i","c","s"," ","u","s","i","n","g"," ","P","o","w","e","r"," ","B","i">>>>,
     <<<<"d","a","t","a">>,
       <<"D","a","t","a"," ","A","n","a","l","y","t","i","c","s"," ","u","s","i","n","g"," ","P","o","w","e","r"," ","B","i">>>>,
     <<<<"d","e","l","e","g","a","t","i","o","n">>,
       <<"D","e","l","e","g","a","t","i","o","n"," ","o","f"," ","P","o","w","e","r","(","D","O","P",")">>>>,
     <<<<"r","u","n","w","a","y">>,
       <<"R","u","n","w","a","y"," ","R","u","b","b","e","r"," ","R","e","m","o","v","a","l">>>>,
     <<<<"r","u","b","b","e","r">>,
       <<"R","u","n","w","a","y"," ","R","u","b","b","e","r"," ","R","e","m","o","v","a","l">>>>,
     <<<<"r","e","m","o","v","a","l">>,
       <<"R","u","n","w","a","y"," ","R","u","b","b","e","r"," ","R","e","m","o","v","a","l">>>>,
     <<<<"s","a","f","e","t","y"," ","m","a","n","a","g","e","m","e","n","t">>,
       <<"S","a","f","e","t","y"," ","M","a","n","a","g","e","m","e","n","t"," ","S","y","s","t","e","m","(","S","M","S",")">>>>,
     <<<<"s","a","f","e","t","y"," ","m","a","n","a","g","e","m","e","n","t"," ","s","y","s","t","e","m">>,
       <<"S","a","f","e","t","y"," ","M","a","n","a","g","e","m","e","n","t"," ","S","y","s","t","e","m","(","S","M","S",")">>>>,
     <<<<"g","e","m"," ","p","r","o","c","u","r","e","m","e","n","t">>,
       <<"G","e","M"," ","P","r","o","c","u","r","e","m","e","n","t">>>>,
     <<<<"p","o","w","e","r"," ","b","i">>,
       <<"D","a","t","a"," ","A","n","a","l","y","t","i","c","s"," ","u","s","i","n","g"," ","P","o","w","e","r"," ","B","i">>>>,
     <<<<"d","a","t","a"," ","a","n","a","l","y","t","i","c","s">>,
       <<"D","a","t","a"," ","A","n","a","l","y","t","i","c","s"," ","u","s","i","n","g"," ","P","o","w","e","r"," ","B","i">>>>,
     <<<<"a","d","v","a","n","c","e"," ","e","x","c","e","l">>,
       <<"A","d","v","a","n","c","e"," ","E","x","c","e","l"," ","&"," ","P","o","w","e","r"," ","B","I">>>>,
     <<<<"e","x","c","e","l">>,
       <<"A","d","v","a","n","c","e"," ","E","x","c","e","l"," ","&"," ","P","o","w","e","r"," ","B","I">>>>,
     <<<<"c","o","n","t","r","a","c","t"," ","m","a","n","a","g","e","m","e","n","t">>,
       <<"C","o","n","t","r","a","c","t"," ","M","a","n","a","g","e","m","e","n","t">>>>,
     <<<<"c","o","m","m","e","r","c","i","a","l"," ","c","o","n","t","r","a","c","t">>,
       <<"C","o","m","m","e","r","c","i","a","l"," ","C","o","n","t","r","a","c","t"," ","m","a","n","a","g","e","m","e","n","t">>>>,
     <<<<"w","i","l","d","l","i","f","e">>,
       <<"W","i","l","d","l","i","f","e"," ","H","a","z","a","r","d"," ","M","a","n","a","g","e","m","e","n","t">>>>,
     <<<<"w","i","l","d","l","i","f","e"," ","m","a","n","a","g","e","m","e","n","t">>,
       <<"W","i","l","d","l","i","f","e"," ","H","a","z","a","r","d"," ","M","a","n","a","g","e","m","e","n","t">>>>,
     <<<<"a","i","r","p","o","r","t"," ","e","m","e","r","g","e","n","c","y">>,
       <<"A","i","r","p","o","r","t"," ","E","m","e","r","g","e","n","c","y"," ","P","l","a","n","n","i","n","g"," "," ","&"," ","D","i","s","a","b","l","e","d"," ","A","i","r","c","r","a","f","t"," ","R","e","m","o","v","a","l">>>>,
     <<<<"a","e","r","o","d","r","o","m","e"," ","d","e","s","i","g","n">>,
       <<"A","e","r","o","d","r","o","m","e"," ","D","e","s","i","g","n"," ","&"," ","O","p","e","r","a","t","i","o","n","s","(","A","n","n","e","x","-","1","4",")">>>>,
     <<<<"a","e","r","o","d","r","o","m","e"," ","o","p","e","r","a","t","i","o","n","s">>,
       <<"A","e","r","o","d","r","o","m","e"," ","D","e","s","i","g","n"," ","&"," ","O","p","e","r","a","t","i","o","n","s","(","A","n","n","e","x","-","1","4",")">>>>,
     <<<<"a","e","r","o","d","r","o","m","e"," ","l","i","c","e","n","s","i","n","g">>,
       <<"A","e","r","o","d","r","o","m","e"," ","L","i","c","e","n","s","i","n","g">>>>,
     <<<<"a","i","r","f","i","e","l","d"," ","p","a","v","e","m","e","n","t">>,
       <<"A","i","r","f","i","e","l","d"," ","p","a","v","e","m","e","n","t"," ","M","a","r","k","i","n","g","(","A","P","M",")">>>>,
     <<<<"a","i","r","f","i","e","l","d"," ","m","a","r","k","i","n","g">>,
       <<"A","i","r","f","i","e","l","d"," ","p","a","v","e","m","e","n","t"," ","M","a","r","k","i","n","g","(","A","P","M",")">>>>,
     <<<<"p","a","s","s","e","n","g","e","r"," ","w","a","y","f","i","n","d","i","n","g">>,
       <<"P","a","s","s","e","n","g","e","r"," ","W","a","y","f","i","n","d","i","n","g"," ","s","i","g","n","a","g","e","s","(","P","W","S",")">>>>,
     <<<<"a","e","r","o","n","a","u","t","i","c","a","l"," ","g","r","o","u","n","d">>,
       <<"A","e","r","o","n","a","u","t","i","c","a","l"," ","g","r","o","u","n","d"," ","L","i","g","h","t","s","(","A","G","L",")">>>>,
     <<<<"g","r","o","u","n","d"," ","l","i","g","h","t","i","n","g">>,
       <<"A","e","r","o","n","a","u","t","i","c","a","l"," ","g","r","o","u","n","d"," ","L","i","g","h","t","s","(","A","G","L",")">>>>,
     <<<<"h","u","m","a","n"," ","f","a","c","t","o","r","s">>,
       <<"H","u","m","a","n"," ","F","a","c","t","o","r","s">>>>,
     <<<<"s","t","r","e","s","s"," ","m","a","n","a","g","e","m","e","n","t">>,
       <<"S","t","r","e","s","s"," ","M","a","n","a","g","e","m","e","n","t">>>>,
     <<<<"r","e","t","i","r","e","m","e","n","t"," ","p","l","a","n","n","i","n","g">>,
       <<"P","l","a","n","n","i","n","g"," ","f","o","r"," ","R","e","t","i","r","e","m","e","n","t">>>>,
     <<<<"p","l","a","n","n","i","n","g"," ","r","e","t","i","r","e","m","e","n","t">>,
       <<"P","l","a","n","n","i","n","g"," ","f","o","r"," ","R","e","t","i","r","e","m","e","n","t">>>>,
     <<<<"l","a","b","o","u","r"," ","l","a","w","s">>,
       <<"C","o","m","p","l","i","a","n","c","e"," ","o","f"," ","L","a","b","o","u","r"," ","L","a","w","s">>>>,
     <<<<"c","o","m","p","l","i","a","n","c","e"," ","l","a","b","o","u","r">>,
       <<"C","o","m","p","l","i","a","n","c","e"," ","o","f"," ","L","a","b","o","u","r"," ","L","a","w","s">>>>,
     <<<<"r","i","g","h","t"," ","t","o"," ","i","n","f","o","r","m","a","t","i","o","n">>,
       <<"R","i","g","h","t"," ","T","o"," ","I","n","f","o","r","m","a","t","i","o","n"," ","A","c","t",","," ","2","0","0","5">>>>,
     <<<<"r","t","i"," ","a","c","t">>,
       <<"R","i","g","h","t"," ","T","o"," ","I","n","f","o","r","m","a","t","i","o","n"," ","A","c","t",","," ","2","0","0","5">>>>,
     <<<<"m","e","n","t","o","r","s","h","i","p">>,
       <<"M","e","n","t","o","r","s","h","i","p"," ","a","n","d"," ","s","u","c","c","e","s","s","i","o","n"," ","p","l","a","n","n","i","n","g">>>>,
     <<<<"s","u","c","c","e","s","s","i","o","n"," ","p","l","a","n","n","i","n","g">>,
       <<"M","e","n","t","o","r","s","h","i","p"," ","a","n","d"," ","s","u","c","c","e","s","s","i","o","n"," ","p","l","a","n","n","i","n","g">>>>,
     <<<<"l","e","a","d","e","r","s","h","i","p">>,
       <<"L","e","a","d","e","r","s","h","i","p",",","T","e","a","m"," ","B","u","i","l","d","i","n","g"," ","&"," ","C","o","n","f","l","i","c","t"," ","M","a","n","a","g","e","m","e","n","t">>>>,
     <<<<"t","e","a","m"," ","b","u","i","l","d","i","n","g">>,
       <<"L","e","a","d","e","r","s","h","i","p",",","T","e","a","m"," ","B","u","i","l","d","i","n","g"," ","&"," ","C","o","n","f","l","i","c","t"," ","M","a","n","a","g","e","m","e","n","t">>>>,
     <<<<"c","o","n","f","l","i","c","t"," ","m","a","n","a","g","e","m","e","n","t">>,
       <<"L","e","a","d","e","r","s","h","i","p",",","T","e","a","m"," ","B","u","i","l","d","i","n","g"," ","&"," ","C","o","n","f","l","i","c","t"," ","M","a","n","a","g","e","m","e","n","t">>>>,
     <<<<"a","c","c","o","u","n","t","i","n","g">>,
       <<"A","c","c","o","u","n","t","i","n","g"," ","&"," ","I","n","t","e","r","n","a","l"," ","A","u","d","i","t">>>>,
     <<<<"i","n","t","e","r","n","a","l"," ","a","u","d","i","t">>,
       <<"A","c","c","o","u","n","t","i","n","g"," ","&"," ","I","n","t","e","r","n","a","l"," ","A","u","d","i","t">>>>,
     <<<<"b","u","d","g","e","t"," ","p","r","e","p","a","r","a","t","i","o","n">>,
       <<"D","e","l","e","g","a","t","i","o","n"," ","o","f"," ","P","o","w","e","r","(","D","O","P",")"," ","&"," ","B","u","d","g","e","t"," ","P","r","e","p","a","r","a","t","i","o","n">>>>,
     <<<<"g","o","o","d","s"," ","s","e","r","v","i","c","e","s"," ","t","a","x">>,
       <<"G","o","o","d","s"," ","a","n","d"," ","S","e","r","v","i","c","e","s"," ","T","a","x"," ","&"," ","S","t","a","t","u","t","o","r","y"," ","T","a","x","a","t","i","o","n">>>>,
     <<<<"s","t","a","t","u","t","o","r","y"," ","t","a","x","a","t","i","o","n">>,
       <<"G","o","o","d","s"," ","a","n","d"," ","S","e","r","v","i","c","e","s"," ","T","a","x"," ","&"," ","S","t","a","t","u","t","o","r","y"," ","T","a","x","a","t","i","o","n">>>>,
     <<<<"d","e","s","i","g","n"," ","t","h","i","n","k","i","n","g">>,
       <<"D","e","s","i","g","n"," ","T","h","i","n","k","i","n","g"," ","f","o","r"," ","n","u","t","u","r","i","n","g"," ","i","n","n","o","v","a","t","i","o","n">>>>,
     <<<<"i","n","n","o","v","a","t","i","o","n">>,
       <<"D","e","s","i","g","n"," ","T","h","i","n","k","i","n","g"," ","f","o","r"," ","n","u","t","u","r","i","n","g"," ","i","n","n","o","v","a","t","i","o","n">>>>,
     <<<<"d","a","t","a"," ","d","r","i","v","e","n">>,
       <<"D","a","t","a"," ","D","r","i","v","e","n"," ","D","e","c","i","s","i","o","n"," ","M","a","k","i","n","g">>>>,
     <<<<"d","e","c","i","s","i","o","n"," ","m","a","k","i","n","g">>,
       <<"D","a","t","a"," ","D","r","i","v","e","n"," ","D","e","c","i","s","i","o","n"," ","M","a","k","i","n","g">>>>,
     <<<<"p","r","e","s","e","n","t","a","t","i","o","n"," ","s","k","i","l","l","s">>,
       <<"E","f","f","e","c","t","i","v","e"," ","P","r","e","s","e","n","t","a","t","i","o","n"," ","a","n","d"," ","C","o","m","m","u","n","i","c","a","t","i","o","n"," ","s","k","i","l","l","s">>>>,
     <<<<"c","o","m","m","u","n","i","c","a","t","i","o","n"," ","s","k","i","l","l","s">>,
       <<"E","f","f","e","c","t","i","v","e"," ","P","r","e","s","e","n","t","a","t","i","o","n"," ","a","n","d"," ","C","o","m","m","u","n","i","c","a","t","i","o","n"," ","s","k","i","l","l","s">>>>,
     <<<<"c","o","r","p","o","r","a","t","e"," ","c","o","m","m","u","n","i","c","a","t","i","o","n">>,
       <<"C","o","r","p","o","r","a","t","e"," ","c","o","m","m","u","n","i","c","a","t","i","o","n">>>>,
     <<<<"g","r","e","e","n"," ","a","v","i","a","t","i","o","n">>,
       <<"G","r","e","e","n"," ","A","v","i","a","t","i","o","n">>>>,
     <<<<"s","y","s","t","e","m"," ","e","n","g","i","n","e","e","r","i","n","g">>,
       <<"S","y","s","t","e","m"," ","E","n","g","i","n","e","e","r","i","n","g"," ","a","n","d"," ","P","r","o","j","e","c","t"," ","M","a","n","a","g","e","m","e","n","t">>>>,
     <<<<"p","r","o","j","e","c","t"," ","m","a","n","a","g","e","m","e","n","t">>,
       <<"S","y","s","t","e","m"," ","E","n","g","i","n","e","e","r","i","n","g"," ","a","n","d"," ","P","r","o","j","e","c","t"," ","M","a","n","a","g","e","m","e","n","t">>>>,
     <<<<"a","i","r","p","o","r","t"," ","t","e","r","m","i","n","a","l">>,
       <<"A","i","r","p","o","r","t"," ","T","e","r","m","i","n","a","l"," ","M","a","n","a","g","e","m","e","n","t">>>>,
     <<<<"t","e","r","m","i","n","a","l"," ","m","a","n","a","g","e","m","e","n","t">>,
       <<"A","i","r","p","o","r","t"," ","T","e","r","m","i","n","a","l"," ","M","a","n","a","g","e","m","e","n","t">>>>,
     <<<<"a","i","r","p","o","r","t"," ","p","a","v","e","m","e","n","t">>,
       <<"A","i","r","p","o","r","t"," ","P","a","v","e","m","e","n","t"," ","D","e","s","i","g","n",",","E","v","a","l","u","a","t","i","o","n"," ","&"," ","M","a","i","n","t","e","n","a","n","c","e">>>>,
     <<<<"p","a","v","e","m","e","n","t"," ","d","e","s","i","g","n">>,
       <<"A","i","r","p","o","r","t"," ","P","a","v","e","m","e","n","t"," ","D","e","s","i","g","n",",","E","v","a","l","u","a","t","i","o","n"," ","&"," ","M","a","i","n","t","e","n","a","n","c","e">>>>,
     <<<<"p","a","v","e","m","e","n","t"," ","e","v","a","l","u","a","t","i","o","n">>,
       <<"A","i","r","p","o","r","t"," ","P","a","v","e","m","e","n","t"," ","D","e","s","i","g","n",",","E","v","a","l","u","a","t","i","o","n"," ","&"," ","M","a","i","n","t","e","n","a","n","c","e">>>>,
     <<<<"p","a","v","e","m","e","n","t"," ","m","a","i","n","t","e","n","a","n","c","e">>,
       <<"A","i","r","p","o","r","t"," ","P","a","v","e","m","e","n","t"," ","D","e","s","i","g","n",",","E","v","a","l","u","a","t","i","o","n"," ","&"," ","M","a","i","n","t","e","n","a","n","c","e">>>>,
     <<<<"a","e","r","o","d","r","o","m","e"," ","p","l","a","n","n","i","n","g">>,
       <<"A","e","r","o","d","r","o","m","e"," ","P","l","a","n","n","i","n","g"," ","(","G","r","e","e","n"," ","F","i","e","l","d","/","B","r","o","w","n","f","i","e","l","d"," ","A","i","r","p","o","r","t",")">>>>,
     <<<<"g","r","e","e","n"," ","f","i","e","l","d">>,
       <<"A","e","r","o","d","r","o","m","e"," ","P","l","a","n","n","i","n","g"," ","(","G","r","e","e","n"," ","F","i","e","l","d","/","B","r","o","w","n","f","i","e","l","d"," ","A","i","r","p","o","r","t",")">>>>,
     <<<<"b","r","o","w","n","f","i","e","l","d">>,
       <<"A","e","r","o","d","r","o","m","e"," ","P","l","a","n","n","i","n","g"," ","(","G","r","e","e","n"," ","F","i","e","l","d","/","B","r","o","w","n","f","i","e","l","d"," ","A","i","r","p","o","r","t",")">>>>,
     <<<<"m","i","d"," ","c","a","r","e","e","r">>,
       <<"G","o","o","d"," ","t","o"," ","G","r","e","a","t","-","M","i","d"," ","C","a","r","e","e","r"," ","T","r","a","n","s","i","t","i","o","n">>>>,
     <<<<"c","a","r","e","e","r"," ","t","r","a","n","s","i","t","i","o","n">>,
       <<"G","o","o","d"," ","t","o"," ","G","r","e","a","t","-","M","i","d"," ","C","a","r","e","e","r"," ","T","r","a","n","s","i","t","i","o","n">>>>,
     <<<<"c","y","b","e","r"," ","s","e","c","u","r","i","t","y">>,
       <<"A","v","i","a","t","i","o","n"," ","C","y","b","e","r"," ","S","e","c","u","r","i","t","y">>>>,
     <<<<"a","v","i","a","t","i","o","n"," ","c","y","b","e","r">>,
       <<"A","v","i","a","t","i","o","n"," ","C","y","b","e","r"," ","S","e","c","u","r","i","t","y">>>>,
     <<<<"i","n","d","u","s","t","r","i","a","l"," ","r","e","l","a","t","i","o","n","s">>,
       <<"I","n","d","u","s","t","r","i","a","l"," ","R","e","l","a","t","i","o","n","s"," ","a","n","d"," ","S","t","a","k","e","h","o","l","d","e","r"," ","m","a","n","a","g","e","m","e","n","t">>>>,
     <<<<"s","t","a","k","e","h","o","l","d","e","r"," ","m","a","n","a","g","e","m","e","n","t">>,
       <<"I","n","d","u","s","t","r","i","a","l"," ","R","e","l","a","t","i","o","n","s"," ","a","n","d"," ","S","t","a","k","e","h","o","l","d","e","r"," ","m","a","n","a","g","e","m","e","n","t">>>>,
     <<<<"i","n","f","r","a","s","t","r","u","c","t","u","r","e"," ","p","a","s","s","e","n","g","e","r","s">>,
       <<"I","n","f","r","a","s","t","r","u","c","t","u","r","e"," ","a","n","d"," ","f","a","c","i","l","i","t","i","e","s"," ","f","o","r"," ","P","a","s","s","e","n","g","e","r","s"," ","w","i","t","h"," ","r","e","d","u","c","e","d"," ","m","o","b","i","l","i","t","i","e","s">>>>,
     <<<<"p","a","s","s","e","n","g","e","r","s"," ","r","e","d","u","c","e","d"," ","m","o","b","i","l","i","t","i","e","s">>,
       <<"I","n","f","r","a","s","t","r","u","c","t","u","r","e"," ","a","n","d"," ","f","a","c","i","l","i","t","i","e","s"," ","f","o","r"," ","P","a","s","s","e","n","g","e","r","s"," ","w","i","t","h"," ","r","e","d","u","c","e","d"," ","m","o","b","i","l","i","t","i","e","s">>>>,
     <<<<"a","i","r","f","i","e","l","d"," ","s","i","g","n","s">>,
       <<"A","i","r","f","i","e","l","d"," ","S","i","g","n","s">>>>,
     <<<<"a","n","s"," ","f","u","n","d","a","m","e","n","t","a","l","s">>,
       <<"A","N","S"," ","f","u","n","d","a","m","e","n","t","a","l","s"," ","f","o","r"," ","O","p","s"," ","E","x","e","c","u","t","i","v","e","s">>>>,
     <<<<"o","p","s"," ","e","x","e","c","u","t","i","v","e","s">>,
       <<"A","N","S"," ","f","u","n","d","a","m","e","n","t","a","l","s"," ","f","o","r"," ","O","p","s"," ","E","x","e","c","u","t","i","v","e","s">>>>,
     <<<<"g","l","o","b","a","l"," ","r","e","p","o","r","t","i","n","g">>,
       <<"G","l","o","b","a","l"," ","r","e","p","o","r","t","i","n","g"," ","F","o","r","m","a","t">>>>,
     <<<<"r","e","p","o","r","t","i","n","g"," ","f","o","r","m","a","t">>,
       <<"G","l","o","b","a","l"," ","r","e","p","o","r","t","i","n","g"," ","F","o","r","m","a","t">>>>,
     <<<<"a","n","n","e","x"," ","9">>,
       <<"A","n","n","e","x","-","9","(","F","a","c","i","l","i","t","a","t","i","o","n",")">>>>,
     <<<<"f","a","c","i","l","i","t","a","t","i","o","n">>,
       <<"A","n","n","e","x","-","9","(","F","a","c","i","l","i","t","a","t","i","o","n",")">>>>,
     <<<<"h","e","a","t","i","n","g"," ","v","e","n","t","i","l","a","t","i","o","n">>,
       <<"H","e","a","t","i","n","g"," ","v","e","n","t","i","l","a","t","i","o","n","(","H","V",")"," ","&"," ","A","i","r"," ","C","o","n","d","i","t","i","o","n","i","n","g","(","A","C",")"," ","A","n","d"," ","E","n","e","r","g","y"," ","c","o","n","s","e","r","v","a","t","i","o","n"," ","b","u","i","l","d","i","n","g"," ","c","o","d","e"," ","(","E","C","B","C",")">>>>,
     <<<<"a","i","r"," ","c","o","n","d","i","t","i","o","n","i","n","g">>,
       <<"H","e","a","t","i","n","g"," ","v","e","n","t","i","l","a","t","i","o","n","(","H","V",")"," ","&"," ","A","i","r"," ","C","o","n","d","i","t","i","o","n","i","n","g","(","A","C",")"," ","A","n","d"," ","E","n","e","r","g","y"," ","c","o","n","s","e","r","v","a","t","i","o","n"," ","b","u","i","l","d","i","n","g"," ","c","o","d","e"," ","(","E","C","B","C",")">>>>,
     <<<<"e","n","e","r","g","y"," ","c","o","n","s","e","r","v","a","t","i","o","n">>,
       <<"H","e","a","t","i","n","g"," ","v","e","n","t","i","l","a","t","i","o","n","(","H","V",")"," ","&"," ","A","i","r"," ","C","o","n","d","i","t","i","o","n","i","n","g","(","A","C",")"," ","A","n","d"," ","E","n","e","r","g","y"," ","c","o","n","s","e","r","v","a","t","i","o","n"," ","b","u","i","l","d","i","n","g"," ","c","o","d","e"," ","(","E","C","B","C",")">>>>,
     <<<<"H","V">>,
       <<"H","e","a","t","i","n","g"," ","v","e","n","t","i","l","a","t","i","o","n","(","H","V",")"," ","&"," ","A","i","r"," ","C","o","n","d","i","t","i","o","n","i","n","g","(","A","C",")"," ","A","n","d"," ","E","n","e","r","g","y"," ","c","o","n","s","e","r","v","a","t","i","o","n"," ","b","u","i","l","d","i","n","g"," ","c","o","d","e"," ","(","E","C","B","C",")">>>>
  >>

\* the keys in insertion order
ShortFormKeys ==
  {shortFormMap[i][1] : i \in DOMAIN shortFormMap}

\* own properties of the object literal: shortFormMap[key]
ShortFormValue(key) ==
  shortFormMap[CHOOSE i \in DOMAIN shortFormMap : shortFormMap[i][1] = key][2]

\* lower-case property names that the object literal inherits from
\* Object.prototype: shortFormMap[name] is then a truthy non-string
ObjectPrototypeKeys ==
  { <<"c","o","n","s","t","r","u","c","t","o","r">>,
    <<"_","_","p","r","o","t","o","_","_">> }

(***************************************************************************)
(* findCourseByPartialName: the per-course tests, in the order of the loop *)
(* body.  A course record is [name |-> s]; NoName is the name of a record  *)
(* without a usable Programme field (!courseName).                         *)
(***************************************************************************)
NoName ==
  << >>

\* PRIORITY 1: exact match
Priority1(courseName, searchTerm, lowerCasePartial) ==
  \/ ToLowerCase(courseName) = searchTerm
  \/ ToLowerCase(courseName) = lowerCasePartial

\* PRIORITY 2: the course name starts with the search term
Priority2(courseName, searchTerm, lowerCasePartial) ==
  \/ StartsWith(ToLowerCase(courseName), searchTerm)
  \/ StartsWith(ToLowerCase(courseName), lowerCasePartial)

\* PRIORITY 3: the short form is in the course name with word boundaries
Priority3(courseName, lowerCasePartial, isShortForm) ==
  isShortForm /\ WordBoundaryTest(lowerCasePartial, courseName)

\* PRIORITY 4: the course name contains the expanded search term
Priority4(courseName, searchTerm) ==
  Includes(ToLowerCase(courseName), searchTerm)

\* containment of the query in the name without the short-form guard
Priority5_Unguarded(courseName, lowerCasePartial, isShortForm) ==
  Includes(ToLowerCase(courseName), lowerCasePartial)

\* PRIORITY 5: the course name contains the original search term,
\* only for non-short-form searches
Priority5(courseName, lowerCasePartial, isShortForm) ==
  ~isShortForm /\ Includes(ToLowerCase(courseName), lowerCasePartial)

\* PRIORITY 6: the short form at a word boundary (same test as priority 3)
Priority6(courseName, lowerCasePartial, isShortForm) ==
  isShortForm /\ WordBoundaryTest(lowerCasePartial, courseName)

\* the first test of the loop body that returns the course; 0 when none does
MatchPriority(courseName, searchTerm, lowerCasePartial, isShortForm) ==
  IF Priority1(courseName, searchTerm, lowerCasePartial) THEN 1
  ELSE IF Priority2(courseName, searchTerm, lowerCasePartial) THEN 2
  ELSE IF Priority3(courseName, lowerCasePartial, isShortForm) THEN 3
  ELSE IF Priority4(courseName, searchTerm) THEN 4
  ELSE IF Priority5(courseName, lowerCasePartial, isShortForm) THEN 5
  ELSE IF Priority6(courseName, lowerCasePartial, isShortForm) THEN 6
  ELSE 0

\* results of the resolver: a catalog index, null, or a thrown TypeError
CourseAt(i) ==
  [status |-> "found", idx |-> i]

NullCourse ==
  [status |-> "null", idx |-> 0]

ThrewTypeError ==
  [status |-> "threw", idx |-> 0]

\* the resolver has not been called yet
NotCalled ==
  [status |-> "none", idx |-> 0]

\* for (const course of courses) { ... }
RECURSIVE SearchLoop(_, _, _, _, _)
SearchLoop(i, courses, searchTerm, lowerCasePartial, isShortForm) ==
  IF i > Len(courses) THEN NullCourse
  ELSE IF courses[i].name = NoName
    THEN SearchLoop(i + 1, courses, searchTerm, lowerCasePartial, isShortForm)
  ELSE IF MatchPriority(courses[i].name, searchTerm, lowerCasePartial,
                        isShortForm) # 0
    THEN CourseAt(i)
  ELSE SearchLoop(i + 1, courses, searchTerm, lowerCasePartial, isShortForm)

\* the query lower-cased and not trimmed
NormalizeQuery_Untrimmed(partialName) ==
  ToLowerCase(partialName)

NormalizeQuery(partialName) ==
  Trim(ToLowerCase(partialName))

IsShortForm(lowerCasePartial) ==
  lowerCasePartial \in ShortFormKeys

SearchTerm(lowerCasePartial) ==
  IF IsShortForm(lowerCasePartial)
    THEN ToLowerCase(ShortFormValue(lowerCasePartial))
    ELSE lowerCasePartial

\* a resolver that falls back to the first course when nothing matches
findCourseByPartialName_FirstOnMiss(partialName, courses) ==
  LET lowerCasePartial == NormalizeQuery(partialName)
      result == SearchLoop(1, courses, SearchTerm(lowerCasePartial),
                           lowerCasePartial, IsShortForm(lowerCasePartial))
  IN  IF result = NullCourse /\ Len(courses) > 0
        THEN CourseAt(1)
        ELSE result

findCourseByPartialName(partialName, courses) ==
  LET lowerCasePartial == NormalizeQuery(partialName)
  IN  IF lowerCasePartial \in ObjectPrototypeKeys
        THEN ThrewTypeError
        ELSE SearchLoop(1, courses, SearchTerm(lowerCasePartial),
                        lowerCasePartial, IsShortForm(lowerCasePartial))

(***************************************************************************)
(* domainDefinitions and getDomainResponse                                 *)
(***************************************************************************)
domainDefinitions ==
  [n \in 1..6 |->
     CASE n = 1 -> [name |-> "Aerodrome Design, Operations, Planning & Engineering",
                    courses |-> << "Global reporting Format",
                                   "Basic principles of Aerodrome Safeguarding(NOC)",
                                   "Airport Emergency Planning  & Disabled Aircraft Removal",
                                   "Infrastructure and facilities for Passengers with reduced mobilities",
                                   "Aerdrome Design & Operations(Annex-14)",
                                   "Aerodrome Licensing",
                                   "Airfield pavement Marking(APM)",
                                   "Wildlife Hazard Management",
                                   "Airfield Signs",
                                   "Annex-9(Facilitation)",
                                   "Airport Terminal Management",
                                   "ANS fundamentals for Ops Executives",
                                   "Passenger Wayfinding signages(PWS)",
                                   "Runway Rubber Removal(RRR)",
                                   "Aeronautical ground Lights(AGL)" >>]
       [] n = 2 -> [name |-> "Safety, Security & Compliance",
                    courses |-> << "Safety Management System(SMS)",
                                   "Aviation Cyber Security",
                                   "Human Factors" >>]
       [] n = 3 -> [name |-> "Data Analysis, Decision Making, Innovation & Technology",
                    courses |-> << "Data Analytics using Power Bi",
                                   "Advance Excel & Power BI",
                                   "Design Thinking for nuturing innovation",
                                   "Data Driven Decision Making",
                                   "Effective Presentation and Communication skills",
                                   "Corporate communication" >>]
       [] n = 4 -> [name |-> "Leadership, Management & Professional Development",
                    courses |-> << "Planning for Retirement",
                                   "Stress Management",
                                   "Industrial Relations and Stakeholder management",
                                   "Compliance of Labour Laws",
                                   "Right To Information Act, 2005",
                                   "Mentorship and succession planning",
                                   "Good to Great-Mid Career Transition",
                                   "Leadership,Team Building & Conflict Management",
                                   "APD Professional Competency Development",
                                   "Green Aviation" >>]
       [] n = 5 -> [name |-> "Stakeholder and Contract Management",
                    courses |-> << "GeM Procurement",
                                   "Commercial Contract management",
                                   "Contract Management" >>]
       [] n = 6 -> [name |-> "Financial Management & Auditing",
                    courses |-> << "Accounting & Internal Audit",
                                   "Delegation of Power(DOP) & Budget Preparation",
                                   "Goods and Services Tax & Statutory Taxation" >>]]

\* domainDefinitions[n] is an object exactly for the keys 1..6
HasDomain(n) ==
  n \in DOMAIN domainDefinitions

(***************************************************************************)
(* Reply texts.  A reply is identified by its template and the values the  *)
(* template interpolates; unused fields hold the defaults of NoReply.      *)
(***************************************************************************)
NoReply ==
  [tpl |-> "none", name |-> "", num |-> 0, courses |-> << >>, echo |-> << >>,
   from |-> << >>]

\* testResponse: quotes the message, the number of the sender and the user
\* name
TestResponse(incomingMsg, from, userName) ==
  [NoReply EXCEPT !.tpl = "test", !.name = userName, !.echo = incomingMsg,
                  !.from = from]

GreetingResponse(userName) ==
  [NoReply EXCEPT !.tpl = "greeting", !.name = userName]

getCommonFallbackMessage(userName) ==
  [NoReply EXCEPT !.tpl = "fallback", !.name = userName]

\* the course counts that the summary prints for the domains 1..6, and
\* the total it prints
ShowAllCounts ==
  <<19, 5, 5, 9, 3, 4>>

ShowAllTotal ==
  45

\* the summary: a fixed text with ShowAllCounts and ShowAllTotal
ShowAllResponse ==
  [NoReply EXCEPT !.tpl = "showAll"]

\* the listing of domainDefinitions[n]: its name, its numbered courses
\* and their count
getDomainResponse(n) ==
  [NoReply EXCEPT !.tpl = "domain", !.num = n]

InvalidDomainResponse ==
  [NoReply EXCEPT !.tpl = "invalidDomain"]

InvalidNumberResponse ==
  [NoReply EXCEPT !.tpl = "invalidNumber"]

ThankYouResponse(userName) ==
  [NoReply EXCEPT !.tpl = "farewell", !.name = userName]

\* formatCourseInfo(courses[idx])
formatCourseInfo(idx) ==
  [NoReply EXCEPT !.tpl = "course", !.courses = <<idx>>]

\* comparisonResponse over foundCourses
ComparisonResponse(foundCourses) ==
  [NoReply EXCEPT !.tpl = "comparison", !.courses = foundCourses]

(***************************************************************************)
(* The classifiers of app.post('/meta-webhook'), each as the source tests  *)
(* it                                                                      *)
(***************************************************************************)
isTestMessage(incomingMsg) ==
  incomingMsg # << >> /\ ToLowerCase(incomingMsg) = K_test

isGreeting(incomingMsg) ==
  /\ incomingMsg # << >>
  /\ ToLowerCase(incomingMsg) \in {K_hi, K_hello, K_hey, K_hii, K_helo}

isFormRequest(incomingMsg) ==
  \/ \E i \in DOMAIN formKeywords :
       Includes(ToLowerCase(incomingMsg), ToLowerCase(formKeywords[i]))
  \/ WordBoundaryTest(K_form, incomingMsg)

isShowAllCourses(incomingMsg) ==
  \/ Includes(ToLowerCase(incomingMsg), K_showAllCourses)
  \/ Includes(ToLowerCase(incomingMsg), K_listAllCourses)
  \/ Includes(ToLowerCase(incomingMsg), K_allCourses)
  \/ Includes(ToLowerCase(incomingMsg), K_courses)

\* userText.match(/^(course\s*)?(\d+)$/i): the digits, << >> for no match
NumberMatch(userText) ==
  IF IsDigits(userText) THEN userText
  ELSE IF /\ StartsWith(ToLowerCase(userText), K_course)
          /\ IsDigits(TrimStart(SubSeq(userText, Len(K_course) + 1,
                                       Len(userText))))
    THEN TrimStart(SubSeq(userText, Len(K_course) + 1, Len(userText)))
  ELSE << >>

\* userText.toLowerCase().match(/^domain\s*(\d+)$/i)
DomainMatch(userText) ==
  IF /\ StartsWith(ToLowerCase(userText), K_domain)
     /\ IsDigits(TrimStart(SubSeq(userText, Len(K_domain) + 1,
                                  Len(userText))))
    THEN TrimStart(SubSeq(userText, Len(K_domain) + 1, Len(userText)))
  ELSE << >>

\* a selection that only recognises the single digit
isDomainSelection_DigitOnly(userText) ==
  LET numberMatch == NumberMatch(userText)
      domainMatch == DomainMatch(userText)
      courseNumber == IF numberMatch # << >> THEN ParseInt(numberMatch)
                      ELSE ParseInt(domainMatch)
  IN  IF numberMatch # << >> \/ domainMatch # << >>
        THEN [isDomain |-> (courseNumber >= 1 /\ courseNumber <= 6
                              /\ Len(userText) = 1),
              domainNumber |-> courseNumber]
        ELSE [isDomain |-> FALSE, domainNumber |-> 0]

isDomainSelection(userText) ==
  LET numberMatch == NumberMatch(userText)
      domainMatch == DomainMatch(userText)
      courseNumber == IF numberMatch # << >> THEN ParseInt(numberMatch)
                      ELSE ParseInt(domainMatch)
  IN  IF numberMatch # << >> \/ domainMatch # << >>
        THEN [isDomain |-> \/ (courseNumber >= 1 /\ courseNumber <= 6
                                 /\ Len(userText) = 1)
                           \/ domainMatch # << >>,
              domainNumber |-> courseNumber]
        ELSE [isDomain |-> FALSE, domainNumber |-> 0]

\* /^\d+$/.test(incomingMsg.trim())
isSimpleNumber(incomingMsg) ==
  incomingMsg # << >> /\ IsDigits(Trim(incomingMsg))

isGoodbyeMessage(incomingMsg) ==
  \E i \in DOMAIN goodbyeKeywords :
    Includes(ToLowerCase(incomingMsg), ToLowerCase(goodbyeKeywords[i]))

\* incomingMsg && incomingMsg.trim().length >= 2
isCourseSearch(incomingMsg) ==
  incomingMsg # << >> /\ Len(Trim(incomingMsg)) >= 2

isComparisonQuery(incomingMsg) ==
  \E i \in DOMAIN comparisonKeywords :
    Includes(ToLowerCase(incomingMsg), comparisonKeywords[i])

\* s.split(/\s+/)
RECURSIVE SplitWords(_, _)
SplitWords(s, word) ==
  IF s = << >> THEN <<word>>
  ELSE IF Head(s) \in WhiteSpace
    THEN IF Len(s) > 1 /\ s[2] \in WhiteSpace
           THEN SplitWords(Tail(s), word)
           ELSE <<word>> \o SplitWords(Tail(s), << >>)
    ELSE SplitWords(Tail(s), Append(word, Head(s)))

\* the loop over the words of a comparison query: the catalog indices
\* pushed to foundCourses, or a TypeError thrown by the resolver
RECURSIVE ComparisonLoop(_, _, _, _)
ComparisonLoop(words, i, courses, foundCourses) ==
  IF i > Len(words) THEN [threw |-> FALSE, found |-> foundCourses]
  ELSE IF Len(words[i]) > 2 /\ words[i] \notin Range(comparisonKeywords)
    THEN LET foundCourse == findCourseByPartialName(words[i], courses)
         IN  IF foundCourse.status = "threw"
               THEN [threw |-> TRUE, found |-> foundCourses]
             ELSE IF /\ foundCourse.status = "found"
                     /\ ~\E k \in DOMAIN foundCourses :
                          courses[foundCourses[k]].name
                            = courses[foundCourse.idx].name
               THEN ComparisonLoop(words, i + 1, courses,
                                   Append(foundCourses, foundCourse.idx))
             ELSE ComparisonLoop(words, i + 1, courses, foundCourses)
    ELSE ComparisonLoop(words, i + 1, courses, foundCourses)

\* the words of a comparison query that are passed to the resolver
RECURSIVE ComparisonQueries(_, _, _)
ComparisonQueries(words, i, courses) ==
  IF i > Len(words) THEN << >>
  ELSE IF Len(words[i]) > 2 /\ words[i] \notin Range(comparisonKeywords)
    THEN IF findCourseByPartialName(words[i], courses).status = "threw"
           THEN <<words[i]>>
           ELSE <<words[i]>> \o ComparisonQueries(words, i + 1, courses)
    ELSE ComparisonQueries(words, i + 1, courses)

(***************************************************************************)
(* Response cache and user context                                         *)
(***************************************************************************)
MAX_CACHE_SIZE ==
  1000

MAX_RETRIES ==
  3

\* the expiry of getCachedResponse, in milliseconds
CacheTtlMs ==
  300000

\* message.text.body is cut by substring(0, 1000)
MaxBodyLength ==
  1000

\* the value of a missing payload field
Undefined ==
  <<"undefined">>

\* const normalizeNumber = (num) => num.replace(/\D/g, ''): throws a
\* TypeError on undefined, which callers test with CanNormalize
CanNormalize(num) ==
  num # Undefined

normalizeNumber(num) ==
  KeepDigits(num)

\* responseCache is a Map: its entries in insertion order
CacheIndex(cache, key) ==
  IF \E i \in DOMAIN cache : cache[i].key = key
    THEN CHOOSE i \in DOMAIN cache : cache[i].key = key
    ELSE 0

\* a lookup that ignores the age of the entry
getCachedResponse_NoExpiry(cache, key, t) ==
  LET i == CacheIndex(cache, key)
  IN  IF i # 0 THEN cache[i].response ELSE NoReply

\* null is NoReply
getCachedResponse(cache, key, t) ==
  LET i == CacheIndex(cache, key)
  IN  IF i # 0 /\ t - cache[i].timestamp < CacheTtlMs
        THEN cache[i].response
        ELSE NoReply

\* Map.prototype.set keeps the position of a key that is already present
MapSet(cache, entry) ==
  LET i == CacheIndex(cache, entry.key)
  IN  IF i # 0 THEN [cache EXCEPT ![i] = entry] ELSE Append(cache, entry)

\* a store that never makes room
setCachedResponse_NoEviction(cache, key, response, t) ==
  MapSet(cache, [key |-> key, response |-> response, timestamp |-> t])

setCachedResponse(cache, key, response, t) ==
  LET evicted == IF Len(cache) >= MAX_CACHE_SIZE THEN Tail(cache) ELSE cache
  IN  MapSet(evicted, [key |-> key, response |-> response, timestamp |-> t])

\* userContext is a Map from user id to domain number
ContextSet(ctx, userId, n) ==
  [u \in (DOMAIN ctx) \cup {userId} |-> IF u = userId THEN n ELSE ctx[u]]

\* a delete that empties the map
ContextDelete_EveryUser(ctx, userId) ==
  << >>

ContextDelete(ctx, userId) ==
  [u \in (DOMAIN ctx) \ {userId} |-> ctx[u]]

(***************************************************************************)
(* What the handler computes from the message text and the catalog alone:  *)
(* the outcome of every classifier test and of the course search.          *)
(***************************************************************************)
MessageFacts(incomingMsg, courses) ==
  LET words == SplitWords(ToLowerCase(incomingMsg), << >>)
  IN  [isTestMessage |-> isTestMessage(incomingMsg),
       isGreeting |-> isGreeting(incomingMsg),
       isFormRequest |-> isFormRequest(incomingMsg),
       isShowAllCourses |-> isShowAllCourses(incomingMsg),
       domainSelection |-> isDomainSelection(incomingMsg),
       isSimpleNumber |-> isSimpleNumber(incomingMsg),
       number |-> IF isSimpleNumber(incomingMsg)
                    THEN ParseInt(Trim(incomingMsg)) ELSE 0,
       isGoodbyeMessage |-> isGoodbyeMessage(incomingMsg),
       isCourseSearch |-> isCourseSearch(incomingMsg),
       foundCourse |-> findCourseByPartialName(incomingMsg, courses),
       isComparisonQuery |-> isComparisonQuery(incomingMsg),
       compared |-> ComparisonLoop(words, 1, courses, << >>),
       wordQueries |-> ComparisonQueries(words, 1, courses)]

(***************************************************************************)
(* The synchronous part of the handler: from the extracted message to the  *)
(* first await.  The result names the branch taken, the reply handed to    *)
(* sendMessageWithRetry, the user context it leaves and the queries passed *)
(* to the resolver; threw means an exception reached the outer catch.      *)
(* The branches are named test, greeting, form, showAll, domain,           *)
(* invalidDomain, number, invalidNumber, goodbye, course, comparison,      *)
(* notFound, searchError (the catch of the course search) and              *)
(* finalFallback.                                                          *)
(***************************************************************************)
\* a reply that tells whether any user has chosen a domain
Route_MarksContext(handler, reply, ctx) ==
  [handler |-> handler,
   reply |-> [reply EXCEPT !.num = IF ctx = << >> THEN 0 ELSE 7],
   phase |-> "only", ctx |-> ctx, queries |-> << >>, threw |-> FALSE]

Route(handler, reply, ctx) ==
  [handler |-> handler, reply |-> reply, phase |-> "only", ctx |-> ctx,
   queries |-> << >>, threw |-> FALSE]

\* catch (error) { ... sendMessageWithRetry(from, errorFormResponse) }:
\* from is a const of the try block, out of scope in the catch block, so
\* evaluating it throws a ReferenceError that the inner catch answers with
\* status 500 before any send
CriticalError(handler, ctx) ==
  [Route(handler, NoReply, ctx) EXCEPT !.threw = TRUE]

\* lines 801-919: the course search with its comparison branch
CourseSearchRoute(facts, incomingMsg, userName, ctx) ==
  LET notFound == getCommonFallbackMessage(userName)
  IN  IF facts.foundCourse.status = "threw"
        THEN [Route("searchError", notFound, ctx)
                EXCEPT !.queries = <<incomingMsg>>]
      ELSE IF facts.foundCourse.status = "found"
        THEN [Route("course", formatCourseInfo(facts.foundCourse.idx), ctx)
                EXCEPT !.queries = <<incomingMsg>>]
      ELSE IF ~facts.isComparisonQuery
        THEN [Route("notFound", notFound, ctx)
                EXCEPT !.queries = <<incomingMsg>>]
      ELSE IF facts.compared.threw
        THEN [Route("searchError", notFound, ctx)
                EXCEPT !.queries = <<incomingMsg>> \o facts.wordQueries]
      ELSE IF Len(facts.compared.found) >= 2
        THEN [Route("comparison", ComparisonResponse(facts.compared.found),
                    ctx)
                EXCEPT !.queries = <<incomingMsg>> \o facts.wordQueries]
      ELSE [Route("notFound", notFound, ctx)
              EXCEPT !.queries = <<incomingMsg>> \o facts.wordQueries]

\* the course search placed before the goodbye check
GoodbyeRoute_CourseSearchFirst(facts, incomingMsg, userName, ctx) ==
  IF facts.isCourseSearch
    THEN CourseSearchRoute(facts, incomingMsg, userName, ctx)
  ELSE IF facts.isGoodbyeMessage
    THEN Route("goodbye", ThankYouResponse(userName), ctx)
  ELSE Route("finalFallback", getCommonFallbackMessage(userName), ctx)

\* lines 773-934: goodbye, course search, final fallback
GoodbyeRoute(facts, incomingMsg, userName, ctx) ==
  IF facts.isGoodbyeMessage
    THEN Route("goodbye", ThankYouResponse(userName), ctx)
  ELSE IF facts.isCourseSearch
    THEN CourseSearchRoute(facts, incomingMsg, userName, ctx)
  ELSE Route("finalFallback", getCommonFallbackMessage(userName), ctx)

\* a listing that does not store the selection
SelectDomainRoute_NoContext(handler, from, n, ctx) ==
  IF ~CanNormalize(from) THEN CriticalError(handler, ctx)
  ELSE Route(handler, getDomainResponse(n), ctx)

\* lines 700-717 and 740-757: a domain that exists is stored and listed
SelectDomainRoute(handler, from, n, ctx) ==
  IF ~CanNormalize(from) THEN CriticalError(handler, ctx)
  ELSE Route(handler, getDomainResponse(n),
             ContextSet(ctx, normalizeNumber(from), n))

\* a summary that keeps the context of the user
ShowAllRoute_KeepsContext(from, ctx, cache, t) ==
  LET cachedShowAll == getCachedResponse(cache, "show_all_courses", t)
  IN  IF ~CanNormalize(from) THEN CriticalError("showAll", ctx)
      ELSE IF cachedShowAll # NoReply
        THEN [Route("showAll", cachedShowAll, ctx)
                EXCEPT !.phase = "cached"]
      ELSE [Route("showAll", ShowAllResponse, ctx)
              EXCEPT !.phase = "fresh"]

\* lines 623-693: show all courses
ShowAllRoute(from, ctx, cache, t) ==
  LET cleared == ContextDelete(ctx, normalizeNumber(from))
      cachedShowAll == getCachedResponse(cache, "show_all_courses", t)
  IN  IF ~CanNormalize(from) THEN CriticalError("showAll", ctx)
      ELSE IF cachedShowAll # NoReply
        THEN [Route("showAll", cachedShowAll, cleared)
                EXCEPT !.phase = "cached"]
      ELSE [Route("showAll", ShowAllResponse, cleared)
              EXCEPT !.phase = "fresh"]

\* a range check that lets 7 through
SimpleNumberRoute_UpToSeven(facts, incomingMsg, from, userName, ctx) ==
  IF facts.number >= 1 /\ facts.number <= 7
    THEN IF HasDomain(facts.number)
           THEN SelectDomainRoute("number", from, facts.number, ctx)
           ELSE GoodbyeRoute(facts, incomingMsg, userName, ctx)
    ELSE Route("invalidNumber", InvalidNumberResponse, ctx)

\* lines 732-771: the simple number handler
SimpleNumberRoute(facts, incomingMsg, from, userName, ctx) ==
  IF facts.number >= 1 /\ facts.number <= 6
    THEN IF HasDomain(facts.number)
           THEN SelectDomainRoute("number", from, facts.number, ctx)
           ELSE GoodbyeRoute(facts, incomingMsg, userName, ctx)
    ELSE Route("invalidNumber", InvalidNumberResponse, ctx)

\* the goodbye check placed before every other classifier
RouteMessage_GoodbyeFirst(facts, incomingMsg, from, userName, ctx, cache, t) ==
  IF facts.isGoodbyeMessage
    THEN Route("goodbye", ThankYouResponse(userName), ctx)
  ELSE IF facts.isTestMessage
    THEN Route("test", TestResponse(incomingMsg, from, userName), ctx)
  ELSE IF facts.isGreeting
    THEN Route("greeting", GreetingResponse(userName), ctx)
  ELSE IF facts.isFormRequest
    THEN Route("form", getCommonFallbackMessage(userName), ctx)
  ELSE IF facts.isShowAllCourses
    THEN ShowAllRoute(from, ctx, cache, t)
  ELSE IF facts.domainSelection.isDomain
    THEN IF HasDomain(facts.domainSelection.domainNumber)
           THEN SelectDomainRoute("domain", from,
                                  facts.domainSelection.domainNumber, ctx)
           ELSE Route("invalidDomain", InvalidDomainResponse, ctx)
  ELSE IF facts.isSimpleNumber
    THEN SimpleNumberRoute(facts, incomingMsg, from, userName, ctx)
  ELSE GoodbyeRoute(facts, incomingMsg, userName, ctx)

\* lines 562-934: the classifier chain in source order, over the facts of
\* the message
RouteMessage(facts, incomingMsg, from, userName, ctx, cache, t) ==
  IF facts.isTestMessage
    THEN Route("test", TestResponse(incomingMsg, from, userName), ctx)
  ELSE IF facts.isGreeting
    THEN Route("greeting", GreetingResponse(userName), ctx)
  ELSE IF facts.isFormRequest
    THEN Route("form", getCommonFallbackMessage(userName), ctx)
  ELSE IF facts.isShowAllCourses
    THEN ShowAllRoute(from, ctx, cache, t)
  ELSE IF facts.domainSelection.isDomain
    THEN IF HasDomain(facts.domainSelection.domainNumber)
           THEN SelectDomainRoute("domain", from,
                                  facts.domainSelection.domainNumber, ctx)
           ELSE Route("invalidDomain", InvalidDomainResponse, ctx)
  ELSE IF facts.isSimpleNumber
    THEN SimpleNumberRoute(facts, incomingMsg, from, userName, ctx)
  ELSE GoodbyeRoute(facts, incomingMsg, userName, ctx)

(***************************************************************************)
(* Bounds of the model                                                     *)
(***************************************************************************)
\* courses in a catalog handed to the resolver directly
MaxCatalog ==
  2

\* steps of the wall clock, each of ClockStep milliseconds
MaxTicks ==
  2

ClockStep ==
  150000

(***************************************************************************)
(* Middleware of POST /meta-webhook and processIncomingMessage             *)
(***************************************************************************)
\* a payload field is truthy when it is present and not the empty string
Truthy(field) ==
  field # Undefined /\ field # << >>

\* body.replace(/[<>]/g, '')
RECURSIVE RemoveAngleBrackets(_)
RemoveAngleBrackets(s) ==
  IF s = << >> THEN << >>
  ELSE IF Head(s) \in {"<", ">"}
    THEN RemoveAngleBrackets(Tail(s))
    ELSE <<Head(s)>> \o RemoveAngleBrackets(Tail(s))

Substring(s, n) ==
  SubSeq(s, 1, IF Len(s) < n THEN Len(s) ELSE n)

SanitizeFrom(from) ==
  IF Truthy(from) THEN KeepDigits(from) ELSE from

SanitizeBody(body) ==
  IF Truthy(body)
    THEN Trim(Substring(RemoveAngleBrackets(body), MaxBodyLength))
    ELSE body

\* validateAndSanitizeInput: every message of the payload is sanitized in
\* place; the first invalid one ends the request with status 400
ValidMessage(message) ==
  /\ Truthy(message.from) =>
       /\ Len(SanitizeFrom(message.from)) >= 10
       /\ Len(SanitizeFrom(message.from)) <= 15
  /\ Truthy(message.body) => SanitizeBody(message.body) # << >>

validateAndSanitizeInput(messages) ==
  [ok |-> \A i \in DOMAIN messages : ValidMessage(messages[i]),
   messages |-> [i \in DOMAIN messages |->
                   [from |-> SanitizeFrom(messages[i].from),
                    body |-> SanitizeBody(messages[i].body)]]]

\* processIncomingMessage: the first message of the payload, or null
\* (extracted = FALSE) when the payload carries none
processIncomingMessage(messages, contactName) ==
  IF messages = << >>
    THEN [extracted |-> FALSE, from |-> Undefined, text |-> << >>,
          name |-> ""]
    ELSE [extracted |-> TRUE,
          from |-> messages[1].from,
          text |-> IF Truthy(messages[1].body) THEN messages[1].body
                   ELSE << >>,
          name |-> IF contactName # "" THEN contactName ELSE "Unknown"]

(***************************************************************************)
(* Inputs                                                                  *)
(***************************************************************************)
CourseNames ==
  {SafetyManagementSystemSMS, GeMProcurement, StressManagement,
   CommercialContractManagement, ContractManagement,
   AirportEmergencyPlanning, RunwayRubberRemovalRRR, HumanFactors}

Course(courseName) ==
  [name |-> courseName]

\* the catalog of the handler: a record without a name, then the courses
\* in the order of the Domain Directory, then the course of the short
\* forms 'bi' and 'pbi'
DirectoryCatalog ==
  << Course(NoName),
     Course(AirportEmergencyPlanning), Course(RunwayRubberRemovalRRR),
     Course(SafetyManagementSystemSMS), Course(HumanFactors),
     Course(StressManagement), Course(GeMProcurement),
     Course(CommercialContractManagement), Course(ContractManagement),
     Course(DataAnalyticsUsingPowerBi) >>

HandlerCatalogs ==
  {DirectoryCatalog}

\* every catalog of at most MaxCatalog distinct records
Catalogs ==
  {c \in UNION {[1..n -> CourseNames \cup {NoName}] : n \in 0..MaxCatalog} :
     \A i, j \in DOMAIN c : c[i] = c[j] => i = j}

CatalogOf(names) ==
  [i \in DOMAIN names |-> Course(names[i])]

Texts ==
  CourseNames \cup
  { << >>, T_test, T_Hi, T_registrationForm, T_format, T_showAllCourses,
    T_domain1, T_domain9, T_3, T_7, T_course3, T_thanks, T_thankYouForInfo,
    T_thanksForm, T_byeCourses, T_safetyManagementSystem, T_gem, T_sms,
    T_removal, T_management, T_feesForSMS, T_misspelled, T_xyzzy, T_x,
    T_angle, T_constructor, T_gemVsSms, T_gemVsBi, T_compareGem,
    T_informPlease, T_platformLink, T_1, T_domain3,
    T_03, T_0 }

Queries ==
  (Texts \ {T_gemVsBi, T_informPlease, T_platformLink})
    \cup {T_typo, T_smsSpaced, T_smsLower, T_smsPadded}

\* the senders: a number as Meta delivers it with a contact name, a number
\* without a contact name, and a message without a from field
Asha ==
  [from |-> U1_raw, contactName |-> "Asha"]

Unnamed ==
  [from |-> U2_raw, contactName |-> ""]

NoSender ==
  [from |-> Undefined, contactName |-> "Ravi"]

TextPayload(sender, body, signature) ==
  [signature |-> signature, contactName |-> sender.contactName,
   messages |-> << [from |-> sender.from, body |-> body] >>]

\* the texts that are sent to the handler: the course names and the words
\* left out are inputs of the resolver only
HandlerTexts ==
  Texts \ {GeMProcurement, StressManagement, CommercialContractManagement,
           AirportEmergencyPlanning, RunwayRubberRemovalRRR, HumanFactors,
           T_removal, T_management, T_misspelled, T_sms}

Payloads ==
  {TextPayload(Asha, body, "valid") : body \in HandlerTexts}
  \cup {TextPayload(Unnamed, body, "valid") :
          body \in {T_domain1, T_3, T_showAllCourses, T_thanks, T_xyzzy,
                    HumanFactors}}
  \cup {TextPayload(NoSender, body, "valid") :
          body \in {T_test, T_showAllCourses, T_domain1, T_domain9, T_3, T_7,
                    T_thanks, T_gem, T_x, << >>}}
  \cup {TextPayload(Asha, T_domain1, signature) :
          signature \in {"invalid", "missing"}}
  \cup { [signature |-> "valid", contactName |-> "Asha",
           messages |-> << [from |-> U1_raw, body |-> T_Hi],
                           [from |-> U2_raw, body |-> T_domain1] >>],
         [signature |-> "valid", contactName |-> "", messages |-> << >>],
         TextPayload([from |-> ShortPhone_raw, contactName |-> "Asha"],
                     T_domain1, "valid") }

(***************************************************************************)
(* The middleware and the classifiers are pure functions of the payload    *)
(* and of the message text: their results are tabulated once per payload   *)
(* and per (catalog, text).                                                *)
(***************************************************************************)
Received ==
  [payload \in Payloads |->
     LET validated == validateAndSanitizeInput(payload.messages)
     IN  [ok |-> validated.ok,
          messages |-> validated.messages,
          messageData |-> processIncomingMessage(validated.messages,
                                                 payload.contactName)]] @@ << >>

MessageTexts ==
  {Received[payload].messageData.text : payload \in Payloads}

Facts ==
  [courses \in HandlerCatalogs |->
     [incomingMsg \in MessageTexts |->
        MessageFacts(incomingMsg, courses)] @@ << >>] @@ << >>

(***************************************************************************)
(* State                                                                   *)
(***************************************************************************)
VARIABLES
  catalog,        \* courses.json: the sequence of course records
  userContext,    \* Map userId -> domain number
  responseCache,  \* Map key -> {response, timestamp}, in insertion order
  now,            \* Date.now()
  requests,       \* the POST /meta-webhook requests, one per slot
  query,          \* the argument of a direct resolver call
  found,          \* its result
  requestQueue,   \* Map userId -> true: the users with a pending request
  calls,          \* the calls of processUserRequest
  cacheCall,      \* the last direct call of a cache function
  sendCall,       \* a direct call of sendMessageWithRetry
  pureCall,       \* a direct call of a pure function: argument and result
  nluCall         \* a message in the Dialogflow stage of the handler of index.js

handlerVars ==
  <<catalog, userContext, responseCache, now, requests, query, found>>

queueVars ==
  <<requestQueue, calls>>

directVars ==
  <<cacheCall, sendCall, pureCall, nluCall>>

vars ==
  <<handlerVars, queueVars, directVars>>

IdleRequest ==
  [pc |-> "idle", signature |-> "valid", from |-> Undefined, name |-> "",
   text |-> << >>, extracted |-> FALSE, handler |-> "none", threw |-> FALSE,
   reply |-> NoReply, phase |-> "only", attempt |-> 0, attempts |-> 0,
   delivered |-> << >>, queries |-> << >>, status |-> 0,
   messages |-> << >>]

\* res.status(code) ends a request
Respond(request, code) ==
  [request EXCEPT !.pc = "done", !.status = code]

\* a check that lets a delivery without the header through
verifyWebhookSignature_AcceptsMissing(signature) ==
  signature # "invalid"

\* verifyWebhookSignature calls next() only for a header that is present
\* and equal to 'sha256=' followed by the HMAC-SHA256 of
\* JSON.stringify(req.body) under META_WEBHOOK_SECRET: "valid" stands for
\* that header, "invalid" for any other value, "missing" for no header
verifyWebhookSignature(signature) ==
  signature # "missing" /\ signature = "valid"

(***************************************************************************)
(* POST /meta-webhook: verifyWebhookSignature, validateAndSanitizeInput    *)
(* and the handler up to its first await                                   *)
(***************************************************************************)
Post(s, payload) ==
  LET validated == Received[payload]
      messageData == validated.messageData
      route == RouteMessage(Facts[catalog][messageData.text],
                            messageData.text, messageData.from,
                            messageData.name, userContext, responseCache,
                            now)
      received == [IdleRequest EXCEPT !.signature = payload.signature]
      accepted == [received EXCEPT !.messages = validated.messages,
                                   !.from = messageData.from,
                                   !.name = messageData.name,
                                   !.text = messageData.text,
                                   !.extracted = TRUE,
                                   !.handler = route.handler,
                                   !.queries = route.queries]
  IN  /\ requests[s].pc \in {"idle", "done"}
      /\ IF ~verifyWebhookSignature(payload.signature)
           THEN /\ requests' = [requests EXCEPT ![s] = Respond(received, 401)]
                /\ UNCHANGED userContext
         ELSE IF ~validated.ok
           THEN /\ requests' = [requests EXCEPT ![s] = Respond(received, 400)]
                /\ UNCHANGED userContext
         ELSE IF ~messageData.extracted
           THEN /\ requests' = [requests EXCEPT ![s] = Respond(received, 200)]
                /\ UNCHANGED userContext
         ELSE IF route.threw
           THEN /\ requests' = [requests EXCEPT ![s] =
                     Respond([accepted EXCEPT !.threw = TRUE], 500)]
                /\ userContext' = route.ctx
         ELSE /\ requests' = [requests EXCEPT ![s] =
                                [accepted EXCEPT !.pc = "sending",
                                                 !.reply = route.reply,
                                                 !.phase = route.phase]]
              /\ userContext' = route.ctx
      /\ UNCHANGED <<catalog, responseCache, now, query, found, queueVars,
                   directVars>>

(***************************************************************************)
(* One call of sendWhatsAppMessage made by sendMessageWithRetry completes, *)
(* and the handler runs on to its next await or to its response            *)
(***************************************************************************)
\* a handler that stores the selection again once its listing is sent
SendAttempt_StoresContext(s, ok) ==
  LET r == requests[s]
      tried == [r EXCEPT !.attempt = r.attempt + 1,
                         !.attempts = r.attempts + 1]
  IN  /\ r.pc = "sending"
      /\ ok => r.from # Undefined
      /\ IF ok
           THEN /\ requests' = [requests EXCEPT ![s] =
                     Respond([tried EXCEPT !.delivered =
                                Append(r.delivered, r.reply)], 200)]
                /\ responseCache' =
                     IF r.handler = "showAll" /\ r.phase = "fresh"
                       THEN setCachedResponse(responseCache,
                                              "show_all_courses", r.reply, now)
                       ELSE responseCache
         ELSE IF tried.attempt < MAX_RETRIES
           THEN /\ requests' = [requests EXCEPT ![s] = tried]
                /\ UNCHANGED responseCache
         ELSE IF r.handler = "showAll" /\ r.phase = "cached"
           THEN /\ requests' = [requests EXCEPT ![s] =
                     [tried EXCEPT !.phase = "fresh", !.attempt = 0,
                                   !.reply = ShowAllResponse]]
                /\ UNCHANGED responseCache
         ELSE /\ requests' = [requests EXCEPT ![s] = Respond(tried, 500)]
              /\ UNCHANGED responseCache
      /\ userContext' =
           IF ok /\ r.handler \in {"domain", "number"}
             THEN ContextSet(userContext, normalizeNumber(r.from),
                             r.reply.num)
             ELSE userContext
      /\ UNCHANGED <<catalog, now, query, found, queueVars, directVars>>

SendAttempt(s, ok) ==
  LET r == requests[s]
      tried == [r EXCEPT !.attempt = r.attempt + 1,
                         !.attempts = r.attempts + 1]
  IN  /\ r.pc = "sending"
      /\ ok => r.from # Undefined
      /\ IF ok
           THEN /\ requests' = [requests EXCEPT ![s] =
                     Respond([tried EXCEPT !.delivered =
                                Append(r.delivered, r.reply)], 200)]
                /\ responseCache' =
                     IF r.handler = "showAll" /\ r.phase = "fresh"
                       THEN setCachedResponse(responseCache,
                                              "show_all_courses", r.reply, now)
                       ELSE responseCache
         ELSE IF tried.attempt < MAX_RETRIES
           THEN /\ requests' = [requests EXCEPT ![s] = tried]
                /\ UNCHANGED responseCache
         ELSE IF r.handler = "showAll" /\ r.phase = "cached"
           THEN /\ requests' = [requests EXCEPT ![s] =
                     [tried EXCEPT !.phase = "fresh", !.attempt = 0,
                                   !.reply = ShowAllResponse]]
                /\ UNCHANGED responseCache
         ELSE /\ requests' = [requests EXCEPT ![s] = Respond(tried, 500)]
              /\ UNCHANGED responseCache
      /\ UNCHANGED <<catalog, userContext, now, query, found, queueVars,
                   directVars>>

\* wall-clock time passes
Tick ==
  /\ now + ClockStep <= MaxTicks * ClockStep
  /\ now' = now + ClockStep
  /\ UNCHANGED <<catalog, userContext, responseCache, requests, query, found,
                 queueVars, directVars>>

\* a direct call of the resolver with the query drawn initially
Resolve ==
  /\ found = NotCalled
  /\ found' = findCourseByPartialName(query, catalog)
  /\ UNCHANGED <<catalog, userContext, responseCache, now, requests, query,
                 queueVars, directVars>>

(***************************************************************************)
(* processUserRequest(userId, requestFunction).  A call is idle, polling   *)
(* (its checkQueue timer is pending), running (its requestFunction has     *)
(* been called and has not settled) or done; marked records whether the    *)
(* call took the path that sets requestQueue and deletes it in finally.    *)
(***************************************************************************)
\* calls of processUserRequest
MaxCalls ==
  3

Calls ==
  1..MaxCalls

UserIds ==
  {"919000000001", "919000000002"}

IdleCall ==
  [pc |-> "idle", userId |-> "", marked |-> FALSE, settled |-> "none",
   outcome |-> "none"]

\* the synchronous part of a call: with a pending request of the user the
\* first checkQueue() re-arms its timer; otherwise the user is marked and
\* requestFunction is called.  A call that has returned makes room for a
\* later one, so that at most MaxCalls calls are in progress at a time
ProcessUserRequest(c, userId) ==
  /\ calls[c].pc \in {"idle", "done"}
  /\ IF userId \in requestQueue
       THEN /\ calls' = [calls EXCEPT ![c] =
                           [IdleCall EXCEPT !.pc = "polling",
                                            !.userId = userId]]
            /\ UNCHANGED requestQueue
       ELSE /\ calls' = [calls EXCEPT ![c] =
                           [IdleCall EXCEPT !.pc = "running",
                                            !.userId = userId,
                                            !.marked = TRUE]]
            /\ requestQueue' = requestQueue \cup {userId}
  /\ UNCHANGED <<handlerVars, directVars>>

\* the timer of a polling call fires: resolve(requestFunction()) when the
\* user has no pending request, setTimeout(checkQueue, 100) otherwise
checkQueue(c) ==
  /\ calls[c].pc = "polling"
  /\ IF calls[c].userId \notin requestQueue
       THEN calls' = [calls EXCEPT ![c].pc = "running"]
       ELSE UNCHANGED calls
  /\ UNCHANGED <<requestQueue, handlerVars, directVars>>

\* how the promise of requestFunction settles
Settlements ==
  {"fulfilled", "rejected"}

\* a marked path written as try { ... } with the delete after the await
\* instead of in finally
RequestFunctionSettles_NoFinally(c, settlement) ==
  /\ calls[c].pc = "running"
  /\ calls' = [calls EXCEPT ![c].pc = "done",
                            ![c].settled = settlement,
                            ![c].outcome = settlement]
  /\ requestQueue' = IF calls[c].marked /\ settlement = "fulfilled"
                       THEN requestQueue \ {calls[c].userId}
                       ELSE requestQueue
  /\ UNCHANGED <<handlerVars, directVars>>

\* requestFunction settles: the marked path returns its result or lets
\* its rejection pass, and runs finally { requestQueue.delete(userId) }
\* in both cases; the polling path has resolved its promise with the
\* promise of requestFunction, which settles the same way
RequestFunctionSettles(c, settlement) ==
  /\ calls[c].pc = "running"
  /\ calls' = [calls EXCEPT ![c].pc = "done",
                            ![c].settled = settlement,
                            ![c].outcome = settlement]
  /\ requestQueue' = IF calls[c].marked
                       THEN requestQueue \ {calls[c].userId}
                       ELSE requestQueue
  /\ UNCHANGED <<handlerVars, directVars>>

(***************************************************************************)
(* Direct calls of getCachedResponse and setCachedResponse                 *)
(***************************************************************************)
MaxCacheCalls ==
  3

\* the keys of the direct calls: the key that the handler uses, and the
\* key stored first in a filled cache
CacheKeys ==
  {"show_all_courses", "1"}

CacheResponses ==
  {ShowAllResponse, getDomainResponse(1)}

\* a cache after n stores of distinct keys "1" .. "n"
FilledCache(n) ==
  [i \in 1..n |->
     [key |-> ToString(i), response |-> getDomainResponse(2), timestamp |-> 0]]

\* the sizes of the cache before the direct calls: empty, one below the
\* limit, at the limit
CacheFills ==
  {0, MAX_CACHE_SIZE - 1, MAX_CACHE_SIZE}

NoCacheCall ==
  [op |-> "none", key |-> "", response |-> NoReply, result |-> NoReply,
   n |-> 0]

SetCachedResponse(key, response) ==
  /\ cacheCall.n < MaxCacheCalls
  /\ responseCache' = setCachedResponse(responseCache, key, response, now)
  /\ cacheCall' = [op |-> "set", key |-> key, response |-> response,
                   result |-> NoReply, n |-> cacheCall.n + 1]
  /\ UNCHANGED <<catalog, userContext, now, requests, query, found,
                 queueVars, sendCall, pureCall,
                 nluCall>>

GetCachedResponse(key) ==
  /\ cacheCall.n < MaxCacheCalls
  /\ cacheCall' = [op |-> "get", key |-> key, response |-> NoReply,
                   result |-> getCachedResponse(responseCache, key, now),
                   n |-> cacheCall.n + 1]
  /\ UNCHANGED <<handlerVars, queueVars, sendCall, pureCall,
                 nluCall>>

(***************************************************************************)
(* A direct call of sendMessageWithRetry(to, message, messageType,         *)
(* retries): one step per settled sendWhatsAppMessage                      *)
(***************************************************************************)
MaxRetriesArg ==
  4

\* the retries argument; the default is META_CONFIG.MAX_RETRIES
RetriesArgs ==
  0..MaxRetriesArg

\* how a call of sendWhatsAppMessage settles: the API accepts the message,
\* axios rejects, or axios rejects with status 429 and the catch block
\* waits before it returns; every one of them is a returned result
SendOutcomes ==
  {"sent", "rejected", "rateLimited"}

\* the payload is built for the type 'text' only: with any other type
\* axios posts no body, which the API does not accept
MessageTypes ==
  {"text", "template"}

sendWhatsAppMessage(outcome) ==
  [success |-> outcome = "sent"]

NoSendCall ==
  [pc |-> "idle", messageType |-> "text", retries |-> 0, attempt |-> 0,
   outcomes |-> << >>,
   result |-> [success |-> FALSE, error |-> ""]]

\* the loop test `attempt <= retries` with the next value of attempt: the
\* call goes on to another attempt or returns the failure result
NextAttempt(call) ==
  IF call.attempt + 1 <= call.retries
    THEN [call EXCEPT !.attempt = call.attempt + 1]
    ELSE [call EXCEPT !.pc = "returned",
                      !.result = [success |-> FALSE,
                                  error |-> "Max retries exceeded"]]

\* a loop that makes one attempt more than retries
sendMessageWithRetry_OneMore(call, outcome) ==
  LET tried == [call EXCEPT !.outcomes = Append(call.outcomes, outcome)]
  IN  IF sendWhatsAppMessage(outcome).success
        THEN [tried EXCEPT !.pc = "returned",
                           !.result = [success |-> TRUE, error |-> ""]]
      ELSE IF call.attempt <= call.retries
        THEN [tried EXCEPT !.attempt = call.attempt + 1]
      ELSE NextAttempt(tried)

\* the body of the loop once `await sendWhatsAppMessage(...)` has settled
sendMessageWithRetry(call, outcome) ==
  LET tried == [call EXCEPT !.outcomes = Append(call.outcomes, outcome)]
  IN  IF sendWhatsAppMessage(outcome).success
        THEN [tried EXCEPT !.pc = "returned",
                           !.result = [success |-> TRUE, error |-> ""]]
        ELSE NextAttempt(tried)

CallSendMessageWithRetry(messageType, retries) ==
  /\ sendCall.pc = "idle"
  /\ sendCall' = NextAttempt([NoSendCall EXCEPT !.pc = "sending",
                                                !.messageType = messageType,
                                                !.retries = retries])
  /\ UNCHANGED <<handlerVars, queueVars, cacheCall, pureCall,
                 nluCall>>

SendWhatsAppMessageSettles(outcome) ==
  /\ sendCall.pc = "sending"
  /\ outcome = "sent" => sendCall.messageType = "text"
  /\ sendCall' = sendMessageWithRetry(sendCall, outcome)
  /\ UNCHANGED <<handlerVars, queueVars, cacheCall, pureCall,
                 nluCall>>

(***************************************************************************)
(* formatCourseInfo(course): the text of the course details                *)
(***************************************************************************)
\* the values of the fields of a course record
Null ==
  [type |-> "null", text |-> "", num |-> 0]

Str(text) ==
  [type |-> "string", text |-> text, num |-> 0]

Num(n) ==
  [type |-> "number", text |-> "", num |-> n]

\* the truthiness that `value || 'N/A'` tests
TruthyValue(value) ==
  \/ value.type = "string" /\ value.text # ""
  \/ value.type = "number" /\ value.num # 0

\* the field names that formatCourseInfo passes to getFieldValue
FieldNames ==
  [courseName |->
     <<"P","r","o","g","r","a","m","m","e">>,
   level |->
     <<"L","e","v","e","l"," ","o","f"," ","P","a","r","t","i","c","i","p",
       "a","n","t","s">>,
   currentStartDate |->
     <<"c","u","r","r","e","n","t"," ","m","o","n","t","h"," ","S","t","a",
       "r","t"," ","d","a","t","e">>,
   startDate |->
     <<"S","t","a","r","t"," ","d","a","t","e">>,
   currentEndDate |->
     <<"c","u","r","r","e","n","t"," ","m","o","n","t","h"," ","E","n","d",
       " ","D","a","t","e">>,
   endDate |->
     <<"E","n","d"," ","D","a","t","e">>,
   nextStartDate |->
     <<"n","e","x","t"," ","m","o","n","t","h"," ","S","t","a","r","t"," ",
       "d","a","t","e">>,
   nextEndDate |->
     <<"n","e","x","t"," ","m","o","n","t","h"," ","E","n","d"," ","d","a",
       "t","e">>,
   duration |->
     <<"N","u","m","b","e","r"," ","o","f"," ","D","a","y","s">>,
   feePerDay |->
     <<"C","o","u","r","s","e"," ","F","e","e","s"," ","(","P","e","r"," ",
       "D","a","y"," ","p","e","r"," ","p","a","r","t","i","c","i","p","a",
       "n","t",")">>,
   feeAfterDiscount |->
     <<"C","o","u","r","s","e"," ","F","e","e","s"," ","P","e","r"," ","D",
       "a","y"," ","P","e","r"," ","P","a","r","t","i","c","i","p","a","n",
       "t"," ","p","o","s","t"," ","2","0"," ","%"," ","g","r","o","u","p",
       " ","d","i","s","c","o","u","n","t">>,
   hostelCharges |->
     <<"H","o","s","t","e","l"," ","C","h","a","r","g","e","s">>,
   coordinator |->
     <<"C","o","u","r","s","e"," ","C","o","o","r","d","i","n","a","t","o",
       "r">>,
   category |->
     <<"C","a","t","e","g","o","r","y">>,
   contact |->
     <<"P","h","o","n","e"," ","n","u","m","b","e","r">>,
   email |->
     <<"e","m","a","i","l">>]

\* the key of the record that holds the name of the course
ProgrammeKey ==
  FieldNames.courseName

\* a course record is null or the sequence of its [key, value] pairs in
\* the order of Object.keys
NullRecord ==
  << [key |-> << >>, value |-> Null] >>

\* keys.find(k => k.includes(fieldName) || k === fieldName): the index of
\* the first key that contains fieldName, 0 when there is none
FindKey(course, fieldName) ==
  IF \E i \in DOMAIN course : Includes(course[i].key, fieldName)
    THEN CHOOSE i \in DOMAIN course :
           /\ Includes(course[i].key, fieldName)
           /\ \A j \in 1..(i - 1) : ~Includes(course[j].key, fieldName)
    ELSE 0

getFieldValue(course, fieldName) ==
  LET i == FindKey(course, fieldName)
  IN  IF i # 0 THEN course[i].value ELSE Str("N/A")

\* a fallback that keeps a null value
Or_KeepsFalsy(value, other) ==
  value

\* value || other
Or(value, other) ==
  IF TruthyValue(value) THEN value ELSE other

\* Excel serial dates are printed by toLocaleDateString('en-GB'); the
\* printed date is a string that is determined by the serial number
FormatDate(value) ==
  IF value.type = "number" /\ value.num > 25569
    THEN [type |-> "string", text |-> "dd/mm/yyyy", num |-> value.num]
    ELSE value

\* the text that the catch block returns
FormatError ==
  << [label |-> "Error formatting course information", values |-> << >>] >>

\* the lines of the template literal behind its heading: the label between
\* the asterisks and the interpolated values of the line
formatCourseInfoText(course) ==
  IF course = NullRecord THEN FormatError
  ELSE
    LET NA == Str("N/A")
        field(name) == getFieldValue(course, name)
        courseName == Or(field(FieldNames.courseName), NA)
        level == Or(field(FieldNames.level), NA)
        startDate == Or(field(FieldNames.currentStartDate),
                        Or(field(FieldNames.startDate), NA))
        endDate == Or(field(FieldNames.currentEndDate),
                      Or(field(FieldNames.endDate), NA))
        nextStartDate == Or(field(FieldNames.nextStartDate), NA)
        nextEndDate == Or(field(FieldNames.nextEndDate), NA)
        duration == Or(field(FieldNames.duration), NA)
        feePerDay == Or(field(FieldNames.feePerDay), NA)
        feeAfterDiscount == Or(field(FieldNames.feeAfterDiscount), NA)
        hostelCharges == Or(field(FieldNames.hostelCharges), NA)
        coordinator == Or(field(FieldNames.coordinator), NA)
        category == Or(field(FieldNames.category), NA)
        contact == Or(field(FieldNames.contact), NA)
        email == Or(field(FieldNames.email), NA)
    IN  << [label |-> "Name", values |-> <<courseName>>],
           [label |-> "Level", values |-> <<level>>],
           [label |-> "Date of Current Month",
            values |-> <<FormatDate(startDate), FormatDate(endDate)>>],
           [label |-> "Date of Next Month",
            values |-> <<FormatDate(nextStartDate),
                         FormatDate(nextEndDate)>>],
           [label |-> "Duration", values |-> <<duration>>],
           [label |-> "Fee per day", values |-> <<feePerDay>>],
           [label |-> "Fee after group discount",
            values |-> <<feeAfterDiscount>>],
           [label |-> "Hostel Charges", values |-> <<hostelCharges>>],
           [label |-> "Coordinator(s)", values |-> <<coordinator>>],
           [label |-> "Category", values |-> <<category>>],
           [label |-> "Contact", values |-> <<contact>>],
           [label |-> "Email", values |-> <<email>>] >>

\* the records of the direct calls: the name is present, and every other
\* field is missing, null or (for a few of them) filled
OtherFields ==
  << FieldNames.level, FieldNames.currentStartDate,
     FieldNames.currentEndDate, FieldNames.nextStartDate,
     FieldNames.nextEndDate, FieldNames.duration, FieldNames.feePerDay,
     FieldNames.feeAfterDiscount, FieldNames.hostelCharges,
     FieldNames.coordinator, FieldNames.category, FieldNames.contact,
     FieldNames.email >>

\* the fields whose state varies on its own; the remaining ones are all
\* missing or all null
MaxVaried ==
  5

FieldStates ==
  {"missing", "null"}

RECURSIVE RecordOf(_, _, _)
RecordOf(states, rest, k) ==
  IF k > Len(OtherFields) THEN << >>
  ELSE LET state == IF k <= MaxVaried THEN states[k] ELSE rest
           tail == RecordOf(states, rest, k + 1)
       IN  IF state = "missing" THEN tail
           ELSE << [key |-> OtherFields[k],
                    value |-> IF state = "null" THEN Null
                              ELSE IF k \in 2..5 THEN Num(45000 + k)
                              ELSE Str("filled")] >> \o tail

NamedRecord(states, rest) ==
  << [key |-> ProgrammeKey, value |-> Str("Safety Management System")] >>
    \o RecordOf(states, rest, 1)

FormatCourses ==
  {NamedRecord(states, rest) :
     states \in [1..MaxVaried -> FieldStates], rest \in FieldStates}
  \cup {NamedRecord([k \in 1..MaxVaried |-> "filled"], rest) :
           rest \in FieldStates \cup {"filled"}}
  \cup {NullRecord}

NoPureCall ==
  [fn |-> "none"]

FormatCourseInfo ==
  /\ pureCall.fn = "formatCourseInfo"
  /\ ~pureCall.returned
  /\ pureCall' = [pureCall EXCEPT
                    !.returned = TRUE,
                    !.result = formatCourseInfoText(pureCall.course)]
  /\ UNCHANGED <<handlerVars, queueVars, cacheCall, sendCall,
                 nluCall>>

(***************************************************************************)
(* uniqueCourses: the filter over a Set of the names seen so far           *)
(***************************************************************************)
\* the filter callback over the rows behind row k; seen.has compares the
\* names as they are written.  The filter of index.js also drops a row
\* without a name (!name), the filter of dialogflow.js does not
RECURSIVE UniqueFilter(_, _, _, _)
UniqueFilter(courses, dropsNameless, seen, k) ==
  IF k > Len(courses) THEN << >>
  ELSE LET name == courses[k].name
       IN  IF (dropsNameless /\ ~Truthy(name)) \/ name \in seen
             THEN UniqueFilter(courses, dropsNameless, seen, k + 1)
             ELSE <<courses[k]>>
                    \o UniqueFilter(courses, dropsNameless,
                                    seen \cup {name}, k + 1)

\* a list that still holds every row
uniqueCourses_KeepsAll(courses, dropsNameless) ==
  courses

uniqueCourses(courses, dropsNameless) ==
  UniqueFilter(courses, dropsNameless, {}, 1)

\* the catalogs of the direct calls: up to MaxRows rows, with the same
\* course in several rows, a name that differs in its case only, and rows
\* without a name
MaxRows ==
  4

RowNames ==
  {HumanFactors, ToLowerCase(HumanFactors), GeMProcurement, NoName}

RowCatalogs ==
  UNION {{[k \in 1..n |-> [name |-> names[k], row |-> k]] :
            names \in [1..n -> RowNames]} : n \in 0..MaxRows}

UniqueCourses ==
  /\ pureCall.fn = "uniqueCourses"
  /\ ~pureCall.returned
  /\ pureCall' = [pureCall EXCEPT
                    !.returned = TRUE,
                    !.result = uniqueCourses(pureCall.courses,
                                             pureCall.dropsNameless)]
  /\ UNCHANGED <<handlerVars, queueVars, cacheCall, sendCall,
                 nluCall>>

(***************************************************************************)
(* The Dialogflow stage of app.post('/meta-webhook') in index.js: the      *)
(* handler that passes what its own classifiers leave over to the NLU.     *)
(* Its replies are identified by their template, as above: smartForm is    *)
(* the form-link message with the three suggestions, highTraffic and       *)
(* lookingFor are the two texts of the catch block, couldntProcess and     *)
(* noSpecific the texts for a missing queryResult and a missing            *)
(* fulfillmentText, farewell the goodbye text and answer the reply built   *)
(* for a detected intent.                                                  *)
(***************************************************************************)
\* the words of the domain branch (lines 809-814)
domainKeywords ==
  {<<"a","e","r","o","d","r","o","m","e">>,
   <<"s","a","f","e","t","y">>,
   <<"d","a","t","a">>,
   <<"l","e","a","d","e","r","s","h","i","p">>,
   <<"s","t","a","k","e","h","o","l","d","e","r">>,
   <<"f","i","n","a","n","c","e">>}

\* the words that keep a generic reply from becoming the form message
\* (lines 1185-1186)
courseWords ==
  {K_course, <<"s","h","o","w">>, K_domain}

\* goodbyeKeywords of the fallback goodbye detection (line 1201)
nluGoodbyeKeywords ==
  {<<"b","y","e">>, <<"g","o","o","d","b","y","e">>,
   <<"f","a","r","e","w","e","l","l">>,
   <<"s","e","e"," ","y","o","u">>,
   <<"t","a","k","e"," ","c","a","r","e">>,
   <<"t","h","a","n","k","s">>,
   <<"t","h","a","n","k"," ","y","o","u">>,
   <<"t","a","t","a">>, <<"c","h","a","o">>,
   <<"a","d","i","o","s">>}

\* findCourseByPartialName of index.js (lines 1324-1343): the first course
\* whose lower-cased name includes the trimmed lower-cased text; toLowerCase
\* of a record without a name throws, which the handler catches
IndexSearch(partialName, courses) ==
  LET lowerCasePartial == Trim(ToLowerCase(partialName))
      hits == {i \in DOMAIN courses :
                 \/ courses[i].name = NoName
                 \/ Includes(ToLowerCase(courses[i].name), lowerCasePartial)}
      first == CHOOSE i \in hits : \A j \in hits : i <= j
  IN  IF hits = {} THEN "null"
      ELSE IF courses[first].name = NoName THEN "threw"
      ELSE "found"

\* lines 437-987: no branch before the Dialogflow stage answers the message
ReachesDialogflow(incomingMsg, courses) ==
  LET lower == ToLowerCase(incomingMsg)
  IN  /\ incomingMsg # << >>
      /\ lower \notin {K_test, K_hi, K_hello, K_hey}
      /\ ~isFormRequest(incomingMsg)
      /\ NumberMatch(incomingMsg) = << >>
      /\ ~Includes(lower, K_showAllCourses)
      /\ ~Includes(lower, K_listAllCourses)
      /\ \A keyword \in domainKeywords : ~Includes(lower, keyword)
      /\ DomainMatch(incomingMsg) # << >> =>
           ParseInt(DomainMatch(incomingMsg)) \notin 1..6
      /\ Len(Trim(incomingMsg)) > 3 =>
           IndexSearch(incomingMsg, courses) # "found"

\* how dialogflowClient.detectIntent settles: it rejects with a rate, quota
\* or limit message or with another message, or it resolves without a
\* queryResult, with a confidence below 0.3, with one of the generic
\* fulfillment texts, without a fulfillment text, or with an answer
DetectOutcomes ==
  {"rateLimit", "otherError", "noQueryResult", "lowConfidence", "generic",
   "noFulfillment", "answered"}

DetectErrors ==
  {"rateLimit", "otherError"}

NluReply(tpl) ==
  [NoReply EXCEPT !.tpl = tpl]

\* lines 1030-1177: dialogflowResponse after the try block and its catch
dialogflowResponse(outcome) ==
  CASE outcome = "rateLimit" -> NluReply("highTraffic")
    [] outcome = "otherError" -> NluReply("lookingFor")
    [] outcome = "noQueryResult" -> NluReply("couldntProcess")
    [] outcome = "generic" -> NluReply("smartForm")
    [] outcome = "lowConfidence" -> NluReply("smartForm")
    [] outcome = "noFulfillment" -> NluReply("noSpecific")
    [] OTHER -> NluReply("answer")

\* lines 1180-1183: the texts that include one of the four phrases ('Sorry,
\* I am having trouble' is the initial value, which every path overwrites)
isGenericResponse(response) ==
  response.tpl \in {"noSpecific", "couldntProcess", "lookingFor"}

\* lines 1180-1219: the reply handed to sendMessageWithRetry
FinalResponse(incomingMsg, response) ==
  LET lower == ToLowerCase(incomingMsg)
  IN  IF /\ isGenericResponse(response)
         /\ \A word \in courseWords : ~Includes(lower, word)
        THEN NluReply("smartForm")
      ELSE IF /\ \E keyword \in nluGoodbyeKeywords : Includes(lower, keyword)
              /\ response.tpl = "noSpecific"
        THEN NluReply("farewell")
      ELSE response

\* lines 1227-1230: the reply has no 'Sorry', no 'trouble' and more than
\* 50 characters; every text of the stage has, an answer of Dialogflow is
\* taken to have
Cacheable(response) ==
  response.tpl \in {"highTraffic", "lookingFor", "couldntProcess",
                    "noSpecific", "farewell", "smartForm", "answer"}

\* cacheKey = `dialogflow_${incomingMsg.toLowerCase().trim()}`
NluCacheKey(incomingMsg) ==
  <<"dialogflow_">> \o Trim(ToLowerCase(incomingMsg))

\* the user whose messages the stage handles
NluUser ==
  "919000000001"

\* messages handled by the stage
MaxNluCalls ==
  2

NoNluCall ==
  [pc |-> "idle", text |-> << >>, attempt |-> 0, errors |-> << >>,
   reply |-> NoReply, phase |-> "none", status |-> 0, n |-> 0]

\* the texts posted to the handler of index.js
NluTexts ==
  {T_x, T_thanks, T_xyzzy, T_domain9, T_Hi, T_showAllCourses,
   T_safetyManagementSystem, T_registrationForm, T_7}

\* lines 992-1023: a message reaches the stage; a cached reply is sent,
\* otherwise processUserRequest marks the user and calls Dialogflow
ReachDialogflow(incomingMsg) ==
  LET cachedResponse == getCachedResponse(responseCache,
                                          NluCacheKey(incomingMsg), now)
      call == [NoNluCall EXCEPT !.text = incomingMsg, !.n = nluCall.n + 1]
  IN  /\ nluCall.pc \in {"idle", "done"}
      /\ nluCall.n < MaxNluCalls
      /\ ReachesDialogflow(incomingMsg, catalog)
      /\ IF cachedResponse # NoReply
           THEN /\ nluCall' = [call EXCEPT !.pc = "sending",
                                           !.phase = "cached",
                                           !.reply = cachedResponse]
                /\ UNCHANGED requestQueue
           ELSE /\ nluCall' = [call EXCEPT !.pc = "detecting",
                                           !.attempt = 1]
                /\ requestQueue' = requestQueue \cup {NluUser}
      /\ UNCHANGED <<handlerVars, calls, cacheCall, sendCall, pureCall>>

\* retryDialogflowRequest (lines 215-243) once detectIntent has settled: an
\* error before the last attempt leads to the next attempt, an error of the
\* last attempt is thrown; then the handler runs to its next await
DetectIntentSettles(outcome) ==
  LET failed == [nluCall EXCEPT !.errors = Append(nluCall.errors, outcome)]
      response == dialogflowResponse(outcome)
  IN  /\ nluCall.pc = "detecting"
      /\ IF outcome \in DetectErrors /\ nluCall.attempt < MAX_RETRIES
           THEN /\ nluCall' = [failed EXCEPT !.attempt = nluCall.attempt + 1]
                /\ UNCHANGED requestQueue
           ELSE /\ nluCall' =
                     [(IF outcome \in DetectErrors THEN failed ELSE nluCall)
                        EXCEPT !.pc = "sending",
                               !.phase = IF outcome = "lowConfidence"
                                           THEN "lowConfidence" ELSE "final",
                               !.reply = IF outcome = "lowConfidence"
                                           THEN response
                                           ELSE FinalResponse(nluCall.text,
                                                              response)]
                /\ requestQueue' = requestQueue \ {NluUser}
      /\ UNCHANGED <<handlerVars, calls, cacheCall, sendCall, pureCall>>

\* sendMessageWithRetry returns its result: a cached reply that could not
\* be sent leads on to Dialogflow, a final reply that was sent is cached
NluSendSettles(success) ==
  /\ nluCall.pc = "sending"
  /\ IF success
       THEN /\ nluCall' = [nluCall EXCEPT !.pc = "done", !.status = 200]
            /\ responseCache' =
                 IF nluCall.phase = "final" /\ Cacheable(nluCall.reply)
                   THEN MapSet(responseCache,
                               [key |-> NluCacheKey(nluCall.text),
                                response |-> nluCall.reply,
                                timestamp |-> now])
                   ELSE responseCache
            /\ UNCHANGED requestQueue
     ELSE IF nluCall.phase = "cached"
       THEN /\ nluCall' = [nluCall EXCEPT !.pc = "detecting", !.attempt = 1,
                                          !.phase = "none",
                                          !.reply = NoReply]
            /\ requestQueue' = requestQueue \cup {NluUser}
            /\ UNCHANGED responseCache
     ELSE /\ nluCall' = [nluCall EXCEPT !.pc = "done", !.status = 500]
          /\ UNCHANGED <<responseCache, requestQueue>>
  /\ UNCHANGED <<catalog, userContext, now, requests, query, found, calls,
                 cacheCall, sendCall, pureCall>>

\* the requests in flight: the handler is modelled per slot, and this
\* specification handles one request at a time
Slots ==
  {1}

\* Express serves every POST on its own: a second delivery can enter the
\* handler while an earlier one is suspended at an await
ConcurrentSlots ==
  {1, 2}

(***************************************************************************)
(* Specifications                                                          *)
(***************************************************************************)
InitState ==
  /\ userContext = << >>
  /\ responseCache = << >>
  /\ now = 0
  /\ requests = [s \in ConcurrentSlots |-> IdleRequest]
  /\ found = NotCalled
  /\ requestQueue = {}
  /\ calls = [c \in Calls |-> IdleCall]
  /\ cacheCall = NoCacheCall
  /\ sendCall = NoSendCall
  /\ pureCall = NoPureCall
  /\ nluCall = NoNluCall

Init ==
  /\ catalog \in HandlerCatalogs
  /\ query = << >>
  /\ InitState

Next ==
  \/ \E s \in Slots, payload \in Payloads : Post(s, payload)
  \/ \E s \in Slots, ok \in BOOLEAN : SendAttempt(s, ok)
  \/ Tick

Spec ==
  Init /\ [][Next]_vars

\* the resolver as a pure function of the query and the catalog
InitResolve ==
  /\ catalog \in {CatalogOf(c) : c \in Catalogs}
  /\ query \in Queries
  /\ InitState

NextResolve ==
  Resolve

SpecResolve ==
  InitResolve /\ [][NextResolve]_vars

\* processUserRequest under every interleaving of calls, timers and
\* request functions
NextQueue ==
  \/ \E c \in Calls, userId \in UserIds : ProcessUserRequest(c, userId)
  \/ \E c \in Calls : checkQueue(c)
  \/ \E c \in Calls, settlement \in Settlements :
       RequestFunctionSettles(c, settlement)

SpecQueue ==
  Init /\ [][NextQueue]_vars

\* the timers of setTimeout(checkQueue, 100) fire, and every started
\* request function settles
SpecQueueFair ==
  /\ Init
  /\ [][NextQueue]_vars
  /\ \A c \in Calls : WF_vars(checkQueue(c))
  /\ \A c \in Calls :
       WF_vars(\E settlement \in Settlements :
                 RequestFunctionSettles(c, settlement))

\* the cache functions called directly, in any order, as time passes
InitCache ==
  /\ catalog = DirectoryCatalog
  /\ query = << >>
  /\ userContext = << >>
  /\ responseCache \in {FilledCache(n) : n \in CacheFills}
  /\ now = 0
  /\ requests = [s \in ConcurrentSlots |-> IdleRequest]
  /\ found = NotCalled
  /\ requestQueue = {}
  /\ calls = [c \in Calls |-> IdleCall]
  /\ cacheCall = NoCacheCall
  /\ sendCall = NoSendCall
  /\ pureCall = NoPureCall
  /\ nluCall = NoNluCall

NextCache ==
  \/ \E key \in CacheKeys, response \in CacheResponses :
       SetCachedResponse(key, response)
  \/ \E key \in CacheKeys : GetCachedResponse(key)
  \/ Tick

SpecCache ==
  InitCache /\ [][NextCache]_vars

\* sendMessageWithRetry called directly with every retries argument
NextSend ==
  \/ \E messageType \in MessageTypes, retries \in RetriesArgs :
       CallSendMessageWithRetry(messageType, retries)
  \/ \E outcome \in SendOutcomes : SendWhatsAppMessageSettles(outcome)

\* the axios request has a timeout (REQUEST_TIMEOUT) and the delays are
\* timers, so a pending attempt settles
SpecSend ==
  /\ Init
  /\ [][NextSend]_vars
  /\ WF_vars(\E outcome \in SendOutcomes : SendWhatsAppMessageSettles(outcome))

\* formatCourseInfo as a pure function of the course record
InitFormat ==
  /\ catalog = DirectoryCatalog
  /\ query = << >>
  /\ userContext = << >>
  /\ responseCache = << >>
  /\ now = 0
  /\ requests = [s \in ConcurrentSlots |-> IdleRequest]
  /\ found = NotCalled
  /\ requestQueue = {}
  /\ calls = [c \in Calls |-> IdleCall]
  /\ cacheCall = NoCacheCall
  /\ sendCall = NoSendCall
  /\ pureCall \in {[fn |-> "formatCourseInfo", course |-> course,
                     returned |-> FALSE, result |-> << >>] :
                      course \in FormatCourses}
  /\ nluCall = NoNluCall

NextFormat ==
  FormatCourseInfo

SpecFormat ==
  InitFormat /\ [][NextFormat]_vars

\* the de-duplication as a pure function of the catalog
InitUnique ==
  /\ catalog = DirectoryCatalog
  /\ query = << >>
  /\ userContext = << >>
  /\ responseCache = << >>
  /\ now = 0
  /\ requests = [s \in ConcurrentSlots |-> IdleRequest]
  /\ found = NotCalled
  /\ requestQueue = {}
  /\ calls = [c \in Calls |-> IdleCall]
  /\ cacheCall = NoCacheCall
  /\ sendCall = NoSendCall
  /\ pureCall \in {[fn |-> "uniqueCourses", courses |-> courses,
                     dropsNameless |-> dropsNameless, returned |-> FALSE,
                     result |-> << >>] :
                      courses \in RowCatalogs, dropsNameless \in BOOLEAN}
  /\ nluCall = NoNluCall

NextUnique ==
  UniqueCourses

SpecUnique ==
  InitUnique /\ [][NextUnique]_vars

\* the Dialogflow stage under every outcome of the NLU and of the sends
NextNlu ==
  \/ \E incomingMsg \in NluTexts : ReachDialogflow(incomingMsg)
  \/ \E outcome \in DetectOutcomes : DetectIntentSettles(outcome)
  \/ \E success \in BOOLEAN : NluSendSettles(success)
  \/ Tick

SpecNlu ==
  Init /\ [][NextNlu]_vars

\* the deliveries that arrive while another request is in flight
ConcurrentPayloads ==
  {TextPayload(sender, body, "valid") :
     sender \in {Asha, Unnamed},
     body \in {T_domain1, T_3, T_thanks, T_showAllCourses}}

\* the handler under concurrent deliveries: nothing in app.post waits for
\* an earlier request of the same user
NextConcurrent ==
  \/ \E s \in ConcurrentSlots, payload \in ConcurrentPayloads :
       Post(s, payload)
  \/ \E s \in ConcurrentSlots, ok \in BOOLEAN : SendAttempt(s, ok)

SpecConcurrent ==
  Init /\ [][NextConcurrent]_vars

(***************************************************************************)
(* Properties of the handler (specification Spec)                          *)
(***************************************************************************)
\* the request of a slot carries a message that the handler has routed
Routed(r) ==
  r.extracted /\ r.pc \in {"sending", "done"}

FactsOf(r) ==
  Facts[catalog][r.text]

\* the course name as the replies of the bot quote it: without a trailing
\* parenthesised acronym
RECURSIVE TitleOf(_)
TitleOf(courseName) ==
  IF courseName = << >> \/ Head(courseName) = "(" THEN << >>
  ELSE <<Head(courseName)>> \o TitleOf(Tail(courseName))

\* the message text contains the name of a course of the catalog
ContainsCourseName(incomingMsg, courses) ==
  \E i \in DOMAIN courses :
    /\ courses[i].name # NoName
    /\ Includes(ToLowerCase(incomingMsg),
                ToLowerCase(TitleOf(courses[i].name)))

NamesCourse ==
  [courses \in HandlerCatalogs |->
     [incomingMsg \in MessageTexts |->
        ContainsCourseName(incomingMsg, courses)] @@ << >>] @@ << >>

\* C1: every POST that passes the signature check and the input validation
\* and carries a message has made at least one send attempt by the time it
\* responds
C1_ReplyBeforeResponse ==
  \A s \in Slots :
    (requests[s].extracted /\ requests[s].status # 0)
      => requests[s].attempts >= 1

ClassifierOf(handler) ==
  CASE handler \in {"domain", "invalidDomain"} -> "domain"
    [] handler \in {"number", "invalidNumber"} -> "number"
    [] handler \in {"course", "comparison", "notFound", "searchError"}
         -> "course"
    [] OTHER -> handler

Matches(classifier, facts) ==
  CASE classifier = "goodbye" -> facts.isGoodbyeMessage
    [] classifier = "test" -> facts.isTestMessage
    [] classifier = "greeting" -> facts.isGreeting
    [] classifier = "form" -> facts.isFormRequest
    [] classifier = "showAll" -> facts.isShowAllCourses
    [] classifier = "domain" -> facts.domainSelection.isDomain
    [] classifier = "number" -> facts.isSimpleNumber
    [] classifier = "course" -> facts.isCourseSearch

\* the first classifier of an order that the message satisfies
FirstMatch(order, facts) ==
  IF \E i \in DOMAIN order : Matches(order[i], facts)
    THEN order[CHOOSE i \in DOMAIN order :
                 /\ Matches(order[i], facts)
                 /\ \A j \in 1..(i - 1) : ~Matches(order[j], facts)]
    ELSE "finalFallback"

ClaimedOrder ==
  <<"goodbye", "test", "greeting", "form", "showAll", "domain", "number",
    "course">>

SourceOrder ==
  <<"test", "greeting", "form", "showAll", "domain", "number", "goodbye",
    "course">>

\* the reply of the classifiers whose reply is one fixed template
FixedReplyOk(r) ==
  /\ r.handler = "test" => r.reply = TestResponse(r.text, r.from, r.name)
  /\ r.handler = "greeting" => r.reply = GreetingResponse(r.name)
  /\ r.handler = "form" => r.reply = getCommonFallbackMessage(r.name)
  /\ r.handler = "goodbye" => r.reply = ThankYouResponse(r.name)

C4_CourseNameGetsItsDetails ==
  \A s \in Slots :
    \A i \in DOMAIN catalog :
      (/\ Routed(requests[s])
       /\ catalog[i].name # NoName
       /\ requests[s].text = catalog[i].name)
        => /\ requests[s].reply.tpl = "course"
           /\ catalog[requests[s].reply.courses[1]].name = catalog[i].name

\* the courses a message mentions inside a longer sentence: by their full
\* name, or by a key of the synonym table that stands as a word of the
\* message and whose expansion the course name contains
MentionsCourse(incomingMsg, courseName) ==
  /\ courseName # NoName
  /\ \/ /\ Len(incomingMsg) > Len(courseName)
        /\ Includes(ToLowerCase(incomingMsg), ToLowerCase(courseName))
     \/ \E key \in ShortFormKeys :
          /\ Len(incomingMsg) > Len(key)
          /\ WordBoundaryTest(key, incomingMsg)
          /\ Includes(ToLowerCase(courseName),
                      ToLowerCase(ShortFormValue(key)))

Mentioned ==
  [courses \in HandlerCatalogs |->
     [incomingMsg \in MessageTexts |->
        {i \in DOMAIN courses :
           MentionsCourse(incomingMsg, courses[i].name)}] @@ << >>] @@ << >>

\* C10: a message that reaches the course search and mentions one course
\* inside a longer sentence is answered with the details of that course
C10_SentenceResolvesToCourse ==
  \A s \in Slots :
    \A i \in DOMAIN catalog :
      (/\ Routed(requests[s])
       /\ requests[s].queries # << >>
       /\ Mentioned[catalog][requests[s].text] = {i})
        => /\ requests[s].reply.tpl = "course"
           /\ requests[s].reply.courses = <<i>>

(***************************************************************************)
(* Properties of the resolver (specification SpecResolve)                  *)
(***************************************************************************)
Called ==
  found # NotCalled

Named(i) ==
  i \in DOMAIN catalog /\ catalog[i].name # NoName

\* C5: the resolver called with the name of a course of the catalog
\* returns a record with that name
C5_SelfMatch ==
  (Called /\ \E i \in DOMAIN catalog : Named(i) /\ catalog[i].name = query)
    => /\ found.status = "found"
       /\ catalog[found.idx].name = query

\* the name equals the query or starts with it
PreciseMatch(courseName, partialName) ==
  /\ courseName # NoName
  /\ StartsWith(ToLowerCase(courseName), NormalizeQuery(partialName))

\* C6: when some course matches the query exactly or as a prefix, the
\* resolver returns a course that does
C6_PreciseTierWins ==
  (Called /\ \E i \in DOMAIN catalog : PreciseMatch(catalog[i].name, query))
    => /\ found.status = "found"
       /\ PreciseMatch(catalog[found.idx].name, query)

ContainsExpansion(courseName, key) ==
  /\ courseName # NoName
  /\ Includes(ToLowerCase(courseName), ToLowerCase(ShortFormValue(key)))

\* C7: for a key of the synonym table, when some course name contains the
\* expansion of the key and no course name equals or starts with the key,
\* the resolver returns a course whose name contains the expansion
C7_SynonymResolves ==
  (/\ Called
   /\ NormalizeQuery(query) \in ShortFormKeys
   /\ \E i \in DOMAIN catalog :
        ContainsExpansion(catalog[i].name, NormalizeQuery(query))
   /\ \A i \in DOMAIN catalog : ~PreciseMatch(catalog[i].name, query))
    => /\ found.status = "found"
       /\ ContainsExpansion(catalog[found.idx].name, NormalizeQuery(query))

\* the key occurs in the name, and only inside longer words
OnlyInsideWord(key, courseName) ==
  /\ Includes(ToLowerCase(courseName), key)
  /\ ~WordBoundaryTest(key, courseName)

\* C8: for a key of the synonym table the resolver never returns a course
\* in whose name the key occurs only inside a longer word and whose name
\* neither starts with the key nor contains the expansion of the key
C8_NoMatchInsideWord ==
  (/\ found.status = "found"
   /\ NormalizeQuery(query) \in ShortFormKeys)
    => ~(/\ OnlyInsideWord(NormalizeQuery(query), catalog[found.idx].name)
         /\ ~StartsWith(ToLowerCase(catalog[found.idx].name),
                        NormalizeQuery(query))
         /\ ~ContainsExpansion(catalog[found.idx].name,
                               NormalizeQuery(query)))

\* "gem" has passed over Stress Management, whose name holds "gem" inside
\* "Management", and resolved to GeM Procurement
C8_Witness ==
  /\ query = T_gem
  /\ Len(catalog) >= 2
  /\ catalog[1].name = StressManagement
  /\ found.status = "found"
  /\ catalog[found.idx].name = GeMProcurement

\* lower case, without the characters outside [a-z0-9]
RECURSIVE KeepAlphanumeric(_)
KeepAlphanumeric(s) ==
  IF s = << >> THEN << >>
  ELSE IF Head(s) \in WordChars \ {"_"}
    THEN <<Head(s)>> \o KeepAlphanumeric(Tail(s))
    ELSE KeepAlphanumeric(Tail(s))

Normalized(s) ==
  KeepAlphanumeric(ToLowerCase(s))

Min3(a, b, c) ==
  IF a <= b /\ a <= c THEN a ELSE IF b <= c THEN b ELSE c

\* one row of the edit-distance table, from the row before it; the next
\* column to fill is Len(row)
RECURSIVE LevenshteinRow(_, _, _, _)
LevenshteinRow(previous, c, b, row) ==
  IF Len(row) > Len(b) THEN row
  ELSE LevenshteinRow(previous, c, b,
         Append(row, Min3(previous[Len(row) + 1] + 1, row[Len(row)] + 1,
                          previous[Len(row)]
                            + (IF c = b[Len(row)] THEN 0 ELSE 1))))

\* the first column of a row is the number of characters of a consumed
RECURSIVE LevenshteinRows(_, _, _)
LevenshteinRows(a, b, previous) ==
  IF previous[1] >= Len(a) THEN previous[Len(b) + 1]
  ELSE LevenshteinRows(a, b,
         LevenshteinRow(previous, a[previous[1] + 1], b,
                        <<previous[1] + 1>>))

Levenshtein(a, b) ==
  LevenshteinRows(a, b, [j \in 1..(Len(b) + 1) |-> j - 1])

EditDistance ==
  [q \in Queries |->
     [courseName \in CourseNames |->
        Levenshtein(Normalized(q), Normalized(courseName))] @@ << >>] @@ << >>

\* the course matches the query at a tier before the edit distance: exact,
\* prefix, synonym or containment
StricterMatch(courseName, partialName) ==
  /\ courseName # NoName
  /\ \/ Includes(ToLowerCase(courseName), NormalizeQuery(partialName))
     \/ /\ NormalizeQuery(partialName) \in ShortFormKeys
        /\ \/ ContainsExpansion(courseName, NormalizeQuery(partialName))
           \/ WordBoundaryTest(NormalizeQuery(partialName), courseName)

\* the query is a misspelling of a course of the catalog: within edit
\* distance 4 of its name, and matched by no stricter tier
Misspelled ==
  /\ Called
  /\ \E i \in DOMAIN catalog :
       Named(i) /\ EditDistance[query][catalog[i].name] < 4
  /\ \A i \in DOMAIN catalog : ~StricterMatch(catalog[i].name, query)

C12_ShortOrEmptyIsNull ==
  (Called /\ (Len(Normalized(query)) < 2 \/ catalog = << >>))
    => found = NullCourse

(***************************************************************************)
(* Domain selection and the user context (specification Spec)              *)
(***************************************************************************)
DomainNumbers ==
  1..6

DigitText(n) ==
  <<SubSeq(<<"0", "1", "2", "3", "4", "5", "6", "7", "8", "9">>,
           n + 1, n + 1)[1]>>

DomainText(n) ==
  K_domain \o <<" ">> \o DigitText(n)

SelectionTexts ==
  {DomainText(n) : n \in DomainNumbers} \cup
  {DigitText(n) : n \in DomainNumbers}

SelectionFacts ==
  [courses \in HandlerCatalogs |->
     [incomingMsg \in SelectionTexts |->
        MessageFacts(incomingMsg, courses)] @@ << >>] @@ << >>

\* the senders that the middleware lets through
Senders ==
  {[from |-> Received[payload].messageData.from,
    name |-> Received[payload].messageData.name] :
     payload \in {p \in Payloads :
                    /\ p.signature = "valid"
                    /\ Received[p].ok
                    /\ Received[p].messageData.extracted}}

\* what the handler does with a selection text in the current state
SelectionRoute(incomingMsg, sender) ==
  RouteMessage(SelectionFacts[catalog][incomingMsg], incomingMsg,
               sender.from, sender.name, userContext, responseCache, now)

\* the handler has just taken up the message incomingMsg in slot s
TakesUp(s, incomingMsg) ==
  /\ requests[s].pc \in {"idle", "done"}
  /\ requests'[s].extracted
  /\ requests'[s].pc \in {"sending", "done"}
  /\ requests'[s] # requests[s]
  /\ requests'[s].text = incomingMsg

SelectedNumber(incomingMsg) ==
  IF IsDigits(incomingMsg) THEN ParseInt(incomingMsg)
  ELSE IF DomainMatch(incomingMsg) # << >>
    THEN ParseInt(DomainMatch(incomingMsg))
  ELSE 0

IsSelection(incomingMsg) ==
  IsDigits(incomingMsg) \/ DomainMatch(incomingMsg) # << >>

Selected ==
  [incomingMsg \in MessageTexts |->
     [isSelection |-> IsSelection(incomingMsg),
      number |-> SelectedNumber(incomingMsg)]] @@ << >>

\* C14: once the handler has taken up a selection of a domain n in 1..6
\* from a user, the context of that user is n, until the request ends and
\* whether or not the listing is delivered
C14_SelectionStored ==
  \A s \in Slots :
    (/\ Routed(requests[s])
     /\ requests[s].from # Undefined
     /\ Selected[requests[s].text].isSelection
     /\ Selected[requests[s].text].number \in DomainNumbers)
      => LET userId == normalizeNumber(requests[s].from)
         IN  /\ userId \in DOMAIN userContext
             /\ userContext[userId] = Selected[requests[s].text].number

\* the listing for the message "03" could not be delivered and the context
\* of the user is 3
C14_Witness ==
  \E s \in Slots :
    /\ requests[s].text = T_03
    /\ requests[s].status = 500
    /\ requests[s].attempts = MAX_RETRIES
    /\ requests[s].delivered = << >>
    /\ requests[s].from # Undefined
    /\ userContext[normalizeNumber(requests[s].from)] = 3

\* C15: every number stored in the user context is in 1..6; and a step
\* that takes up a selection of a number outside 1..6 hands a range-error
\* reply to the sender and leaves the user context unchanged
C15_OutOfRangeRejected ==
  /\ [](\A userId \in DOMAIN userContext :
          userContext[userId] \in DomainNumbers)
  /\ [][\A s \in Slots : \A incomingMsg \in {requests'[s].text} :
          (/\ TakesUp(s, incomingMsg)
           /\ Selected[incomingMsg].isSelection
           /\ Selected[incomingMsg].number \notin DomainNumbers)
            => /\ requests'[s].pc = "sending"
               /\ requests'[s].reply
                    \in {InvalidDomainResponse, InvalidNumberResponse}
               /\ userContext' = userContext]_vars

\* the range-error reply for the message "7" has been delivered to a user
\* whose context is still 3
C15_Witness ==
  \E s \in Slots :
    /\ requests[s].text = T_7
    /\ requests[s].status = 200
    /\ requests[s].delivered = <<InvalidNumberResponse>>
    /\ normalizeNumber(requests[s].from) \in DOMAIN userContext
    /\ userContext[normalizeNumber(requests[s].from)] = 3

\* the handler treats the message of the request as show all courses
IsShowAll(r) ==
  FirstMatch(SourceOrder, FactsOf(r)) = "showAll"

\* C16: once the handler has taken up a show-all-courses message from a
\* user, the user context has no entry for that user, until the request
\* ends and however the reply goes; the step that takes the message up
\* removes that entry and no other
C16_ShowAllClearsContext ==
  /\ [](\A s \in Slots :
          (/\ Routed(requests[s])
           /\ requests[s].from # Undefined
           /\ IsShowAll(requests[s]))
            => normalizeNumber(requests[s].from) \notin DOMAIN userContext)
  /\ [][\A s \in Slots : \A incomingMsg \in {requests'[s].text} :
          (/\ TakesUp(s, incomingMsg)
           /\ requests'[s].from # Undefined
           /\ FirstMatch(SourceOrder, Facts[catalog][incomingMsg])
                = "showAll")
            => userContext'
                 = ContextDelete(userContext,
                                 normalizeNumber(requests'[s].from))]_vars

\* the cached summary could not be sent, the fresh one was delivered, and
\* only the other user still has a context
C16_Witness ==
  \E s \in Slots :
    /\ requests[s].text = T_showAllCourses
    /\ requests[s].from # Undefined
    /\ requests[s].phase = "fresh"
    /\ requests[s].attempts > MAX_RETRIES
    /\ requests[s].status = 200
    /\ normalizeNumber(requests[s].from) \notin DOMAIN userContext
    /\ userContext # << >>

\* C17: a bare number k from a user whose context is domain d, with k no
\* greater than the number of courses of d, is answered with the details
\* of a course (the k-th course of d)
C17_NumberInDomainContext ==
  [][\A s \in Slots, k \in 1..9 :
       (/\ DigitText(k) \in MessageTexts
        /\ TakesUp(s, DigitText(k))
        /\ requests'[s].from # Undefined
        /\ normalizeNumber(requests'[s].from) \in DOMAIN userContext
        /\ k <= Len(domainDefinitions[
                      userContext[normalizeNumber(requests'[s].from)]
                    ].courses))
         => requests'[s].reply.tpl = "course"]_vars

(***************************************************************************)
(* The summary of show all courses (specification Spec)                    *)
(***************************************************************************)
RECURSIVE SumOf(_)
SumOf(numbers) ==
  IF numbers = << >> THEN 0 ELSE Head(numbers) + SumOf(Tail(numbers))

\* C18: when the summary has been delivered, the count it shows for each
\* domain is the number of courses the listing of that domain enumerates,
\* and the total it shows is the sum of the six counts
C18_SummaryCountsMatchListings ==
  \A s \in Slots :
    (/\ requests[s].delivered # << >>
     /\ requests[s].delivered[Len(requests[s].delivered)] = ShowAllResponse)
      => /\ \A n \in DomainNumbers :
              ShowAllCounts[n] = Len(domainDefinitions[n].courses)
         /\ ShowAllTotal = SumOf(ShowAllCounts)

(***************************************************************************)
(* Exceptions (specification Spec)                                         *)
(***************************************************************************)
\* an exception was thrown while the message of the request was processed:
\* one that reached the outer catch, or one caught by the course search
Excepted(r) ==
  r.extracted /\ (r.threw \/ r.handler = "searchError")

\* C19: a request during which an exception was thrown does not respond
\* before a send of the fallback template for the user name was attempted
C19_ExceptionGetsFallback ==
  \A s \in Slots :
    (Excepted(requests[s]) /\ requests[s].status # 0)
      => /\ requests[s].attempts >= 1
         /\ requests[s].reply = getCommonFallbackMessage(requests[s].name)

(***************************************************************************)
(* The request queue (specification SpecQueue)                             *)
(***************************************************************************)
\* C20: at most one requestFunction of a user is executing at any time
C20_OneRequestPerUser ==
  \A c, d \in Calls :
    (/\ c # d
     /\ calls[c].pc = "running"
     /\ calls[d].pc = "running")
      => calls[c].userId # calls[d].userId

\* C21: while a reply to one message of a user is being sent (its send
\* attempts and retries are not over), no reply to another message of the
\* same user is being sent
C21_RepliesNotInterleaved ==
  \A s, t \in ConcurrentSlots :
    (/\ s # t
     /\ requests[s].pc = "sending"
     /\ requests[t].pc = "sending"
     /\ requests[s].from # Undefined)
      => normalizeNumber(requests[s].from) # normalizeNumber(requests[t].from)

\* C22: the response cache never holds more than MAX_CACHE_SIZE entries
C22_CacheBounded ==
  Len(responseCache) <= MAX_CACHE_SIZE

\* a store of a new key has found the cache full and has left it full
C22_Witness ==
  /\ cacheCall.op = "set"
  /\ cacheCall.key = "show_all_courses"
  /\ Len(responseCache) = MAX_CACHE_SIZE
  /\ CacheIndex(responseCache, "1") = 0
  /\ CacheIndex(responseCache, "show_all_courses") = MAX_CACHE_SIZE

(***************************************************************************)
(* Properties of the cache functions (specification SpecCache)             *)
(***************************************************************************)
\* the step is a direct call of the cache function op
CacheStep(op) ==
  /\ cacheCall'.n = cacheCall.n + 1
  /\ cacheCall'.op = op

KeysOf(cache) ==
  {cache[i].key : i \in DOMAIN cache}

\* the keys that a step removes from the cache
EvictedKeys ==
  KeysOf(responseCache) \ KeysOf(responseCache')

OldestTimestamp(cache) ==
  CHOOSE t \in {cache[i].timestamp : i \in DOMAIN cache} :
    \A i \in DOMAIN cache : t <= cache[i].timestamp

\* C23: a store evicts an entry only when the key is new and the cache is
\* at MAX_CACHE_SIZE, the evicted entry is then one with the oldest
\* timestamp, and a store of a key that is already cached evicts nothing
C23_EvictsOldestOnOverflowOnly ==
  [][CacheStep("set") =>
       LET key == cacheCall'.key
           present == key \in KeysOf(responseCache)
       IN  /\ EvictedKeys # {} =>
                 /\ ~present
                 /\ Len(responseCache) + 1 > MAX_CACHE_SIZE
           /\ \A k \in EvictedKeys :
                 responseCache[CacheIndex(responseCache, k)].timestamp
                   = OldestTimestamp(responseCache)
           /\ present => EvictedKeys = {}]_vars

\* an entry of the cache whose age is below the expiry
FreshEntry(cache, key, t) ==
  \E i \in DOMAIN cache :
    /\ cache[i].key = key
    /\ t - cache[i].timestamp < 300000

\* C24: a lookup returns the stored response exactly when the key has an
\* entry younger than 300000 ms and null otherwise, it leaves the cache as
\* it is, and a store leaves the key with the stored response and a new age
C24_LookupReturnsFreshEntry ==
  /\ [][CacheStep("get") =>
          LET key == cacheCall'.key
              result == cacheCall'.result
          IN  /\ FreshEntry(responseCache, key, now) =>
                    /\ result # NoReply
                    /\ result =
                         responseCache[CacheIndex(responseCache, key)].response
              /\ ~FreshEntry(responseCache, key, now) => result = NoReply
              /\ responseCache' = responseCache]_vars
  /\ [][CacheStep("set") =>
          LET i == CacheIndex(responseCache', cacheCall'.key)
          IN  /\ i # 0
              /\ responseCache'[i].response = cacheCall'.response
              /\ responseCache'[i].timestamp = now
              /\ FreshEntry(responseCache', cacheCall'.key, now)]_vars

\* a lookup 300000 ms after the first store of a key has returned the
\* response of a later store
C24_Witness ==
  /\ cacheCall.op = "get"
  /\ cacheCall.key = "1"
  /\ now = 2 * ClockStep
  /\ Len(responseCache) >= MAX_CACHE_SIZE - 1
  /\ cacheCall.result = ShowAllResponse
  /\ responseCache[CacheIndex(responseCache, "1")].timestamp = ClockStep

(***************************************************************************)
(* Properties of sendMessageWithRetry (specification SpecSend)             *)
(***************************************************************************)
Succeeded(call) ==
  \E i \in DOMAIN call.outcomes : call.outcomes[i] = "sent"

\* C25: a call makes at most `retries` attempts and none after a
\* successful one, its only ways out are a returned success result iff an
\* attempt succeeded and else the result {success: false, error: 'Max
\* retries exceeded'}, and a call in progress returns
C25_RetryTerminates ==
  /\ [](/\ sendCall.pc \in {"idle", "sending", "returned"}
        /\ Len(sendCall.outcomes) <= sendCall.retries
        /\ \A i \in DOMAIN sendCall.outcomes :
              sendCall.outcomes[i] = "sent" => i = Len(sendCall.outcomes)
        /\ sendCall.pc = "sending" => ~Succeeded(sendCall)
        /\ sendCall.pc = "returned" =>
              /\ sendCall.result.success <=> Succeeded(sendCall)
              /\ ~Succeeded(sendCall) =>
                    sendCall.result = [success |-> FALSE,
                                       error |-> "Max retries exceeded"])
  /\ (sendCall.pc = "sending") ~> (sendCall.pc = "returned")

\* a call with the default retries has failed twice and then succeeded
C25_Witness ==
  /\ sendCall.pc = "returned"
  /\ sendCall.retries = 3
  /\ sendCall.outcomes = <<"rejected", "rateLimited", "sent">>
  /\ sendCall.result.success

(***************************************************************************)
(* Properties of formatCourseInfo (specification SpecFormat)               *)
(***************************************************************************)
FixedLabels ==
  << "Name", "Level", "Date of Current Month", "Date of Next Month",
     "Duration", "Fee per day", "Fee after group discount",
     "Hostel Charges", "Coordinator(s)", "Category", "Contact", "Email" >>

\* the record has a truthy name and no other value
OnlyNamed(course) ==
  /\ course # NullRecord
  /\ \E i \in DOMAIN course :
       course[i].key = ProgrammeKey /\ TruthyValue(course[i].value)
  /\ \A i \in DOMAIN course :
       course[i].key # ProgrammeKey => course[i].value = Null

\* C26: for a record with a name and every other field missing or null
\* the returned text is the template (not the error text), its labels are
\* the fixed ones in their order, and every value behind the name is the
\* placeholder N/A
C26_PlaceholdersForAbsentFields ==
  (/\ pureCall.fn = "formatCourseInfo"
   /\ pureCall.returned
   /\ OnlyNamed(pureCall.course))
    => /\ pureCall.result # FormatError
       /\ [k \in DOMAIN pureCall.result |-> pureCall.result[k].label]
            = FixedLabels
       /\ \A k \in 2..Len(pureCall.result) :
            \A v \in DOMAIN pureCall.result[k].values :
              pureCall.result[k].values[v] = Str("N/A")

\* the text of a record whose name is kept, with null and missing fields
C26_Witness ==
  /\ pureCall.fn = "formatCourseInfo"
  /\ pureCall.returned
  /\ OnlyNamed(pureCall.course)
  /\ Len(pureCall.course) \in 3..(Len(OtherFields) - 1)
  /\ pureCall.result[1].values = <<Str("Safety Management System")>>
  /\ pureCall.result[3].values = <<Str("N/A"), Str("N/A")>>

(***************************************************************************)
(* Properties of the de-duplication (specification SpecUnique)             *)
(***************************************************************************)
RECURSIVE IsSubsequence(_, _)
IsSubsequence(short, long) ==
  IF short = << >> THEN TRUE
  ELSE IF long = << >> THEN FALSE
  ELSE IF Head(short) = Head(long)
    THEN IsSubsequence(Tail(short), Tail(long))
    ELSE IsSubsequence(short, Tail(long))

UniqueReturned ==
  pureCall.fn = "uniqueCourses" /\ pureCall.returned

\* the first row of the catalog with the name of row i
FirstRowNamed(courses, i) ==
  CHOOSE k \in DOMAIN courses :
    /\ courses[k].name = courses[i].name
    /\ \A j \in 1..(k - 1) : courses[j].name # courses[i].name

TokenCourses ==
  [courses \in HandlerCatalogs |->
     [incomingMsg \in MessageTexts |->
        LET words == SplitWords(ToLowerCase(incomingMsg), << >>)
        IN  {courses[findCourseByPartialName(words[i], courses).idx].name :
               i \in {k \in DOMAIN words :
                        findCourseByPartialName(words[k], courses).status
                          = "found"}}] @@ << >>] @@ << >>

\* the request has reached the course search with a comparison keyword in
\* a message that does not resolve as a whole
ComparisonCase(r) ==
  /\ Routed(r)
  /\ r.handler \in {"course", "comparison", "notFound", "searchError"}
  /\ FactsOf(r).isComparisonQuery
  /\ FactsOf(r).foundCourse.status # "found"

\* C28: such a message is answered with the comparison of the courses that
\* its tokens resolve to, each listed once, when these are two or more
\* distinct courses, and with the fallback template otherwise
C28_ComparisonOrFallback ==
  \A s \in Slots :
    ComparisonCase(requests[s]) =>
      LET r == requests[s]
          resolved == TokenCourses[catalog][r.text]
      IN  IF Cardinality(resolved) >= 2
            THEN /\ r.reply.tpl = "comparison"
                 /\ Len(r.reply.courses) = Cardinality(resolved)
                 /\ {catalog[r.reply.courses[k]].name :
                       k \in DOMAIN r.reply.courses} = resolved
            ELSE r.reply = getCommonFallbackMessage(r.name)

(***************************************************************************)
(* Properties of the form classifier (specification Spec)                  *)
(***************************************************************************)
\* the letters "form" occur in the message, and every occurrence has a
\* letter or digit right before or right after it
FormOnlyInLongerWords(incomingMsg) ==
  LET lower == ToLowerCase(incomingMsg)
  IN  /\ Includes(lower, K_form)
      /\ \A i \in 1..Len(lower) :
           MatchesAt(lower, K_form, i)
             => \/ IsWordAt(lower, i - 1)
                \/ IsWordAt(lower, i + Len(K_form))

\* C29: a message with "form" only inside longer words is not answered by
\* the form-request branch
C29_FormInsideWordIsNoFormRequest ==
  \A s \in Slots :
    (/\ Routed(requests[s])
     /\ FormOnlyInLongerWords(requests[s].text))
      => requests[s].handler # "form"

(***************************************************************************)
(* Properties of the message extraction (specification Spec)               *)
(***************************************************************************)
\* C30: when the request of a payload with several messages has ended,
\* every message of the payload has been taken up and a reply to its
\* sender has been attempted
C30_EveryEnvelopeProcessed ==
  \A s \in Slots :
    (/\ requests[s].pc = "done"
     /\ Len(requests[s].messages) >= 2)
      => \A i \in DOMAIN requests[s].messages :
           /\ requests[s].from = requests[s].messages[i].from
           /\ requests[s].text = requests[s].messages[i].body
           /\ requests[s].attempts >= 1

(***************************************************************************)
(* Properties of the Dialogflow stage (specification SpecNlu)              *)
(***************************************************************************)
\* the Dialogflow call of the message failed in every attempt
NluFailed(call) ==
  /\ call.pc \in {"sending", "done"}
  /\ call.phase = "final"
  /\ Len(call.errors) = MAX_RETRIES

\* C31: when the Dialogflow call still fails after its retry budget, for a
\* rate-limit error or any other error, the reply handed to the send is the
\* fallback template with the registration-form link
C31_NluFailureGetsFallback ==
  NluFailed(nluCall) => nluCall.reply = NluReply("smartForm")

SameForOthers(before, after, userId) ==
  \A u \in (DOMAIN before) \cup (DOMAIN after) :
    u # userId =>
      /\ u \in DOMAIN before <=> u \in DOMAIN after
      /\ u \in DOMAIN before => after[u] = before[u]

\* C33: userContext changes only through a valid domain selection, which
\* sets the entry of the sender, and a show-all-courses message, which
\* deletes it: a message of any other branch leaves the whole map as it
\* was, and no message changes the entry of another user
C33_ContextFrame ==
  [][\A s \in Slots :
       LET r == requests'[s]
           userId == normalizeNumber(r.from)
       IN  userContext' # userContext =>
             /\ r.extracted
             /\ r.handler \in {"domain", "number", "showAll"}
             /\ CanNormalize(r.from)
             /\ SameForOthers(userContext, userContext', userId)
             /\ r.handler \in {"domain", "number"} =>
                  userId \in DOMAIN userContext'
             /\ r.handler = "showAll" =>
                  /\ userId \in DOMAIN userContext
                  /\ userId \notin DOMAIN userContext']_vars

\* the show-all message of one user has removed that user's entry while
\* the entry of the other user is in place
C33_Witness ==
  /\ requests[1].handler = "showAll"
  /\ requests[1].from = KeepDigits(U1_raw)
  /\ KeepDigits(U1_raw) \notin DOMAIN userContext
  /\ KeepDigits(U2_raw) \in DOMAIN userContext

(***************************************************************************)
(* The reply as a function of the message (specification Spec)             *)
(***************************************************************************)
\* the reply the handler chooses for a message when nothing has happened
\* before: no user context, an empty cache, time 0
FirstReply(incomingMsg, from, userName) ==
  RouteMessage(Facts[catalog][incomingMsg], incomingMsg, from, userName,
               << >>, << >>, 0).reply

\* the request of a slot has been given a reply
Answered(r) ==
  r.extracted /\ r.pc \in {"sending", "done"} /\ ~r.threw

Starts(s) ==
  /\ requests[s].pc \in {"idle", "done"}
  /\ requests'[s].pc = "sending"

\* the step completes a send attempt of slot s
Completes(s) ==
  /\ requests[s].pc = "sending"
  /\ requests'[s] # requests[s]

\* C35: every handler updates userContext before its first suspension
\* point: the step that starts a handler leaves the entry of its user as
\* its message determines it (set by a selection, removed by a show-all
\* message, kept by any other message), and no completion of a send changes
\* userContext; so the entry of a user is the one produced by the handler
\* that started last, in whatever order the sends complete
C35_LastStartedWins ==
  [][\A s \in ConcurrentSlots :
       LET r == requests'[s]
           userId == normalizeNumber(r.from)
       IN  /\ Completes(s) => userContext' = userContext
           /\ Starts(s) =>
                userContext' =
                  IF r.handler \in {"domain", "number"}
                    THEN ContextSet(userContext, userId,
                                    SelectedNumber(r.text))
                  ELSE IF r.handler = "showAll"
                    THEN ContextDelete(userContext, userId)
                  ELSE userContext]_vars

\* two selections of one user: the one that started last has been answered
\* first, the other is still being sent, and the context is that of the
\* one that started last
C35_Witness ==
  /\ requests[1].text = T_domain1
  /\ requests[2].text = T_3
  /\ requests[1].from = requests[2].from
  /\ requests[1].pc = "sending"
  /\ requests[1].attempts = 2
  /\ requests[2].pc = "done"
  /\ requests[2].status = 200
  /\ KeepDigits(U1_raw) \in DOMAIN userContext
  /\ userContext[KeepDigits(U1_raw)] = 3
  /\ requests[1].from = KeepDigits(U1_raw)

(***************************************************************************)
(* Progress of the request queue (specification SpecQueueFair)             *)
(***************************************************************************)
\* C36: provided every started request function terminates, every request
\* passed to processUserRequest eventually has its function invoked: a
\* call that found its user busy and polls is invoked in the end, whatever
\* requests of the same user arrive later
C36_NoStarvation ==
  \A c \in Calls :
    (calls[c].pc = "polling") ~> (calls[c].pc = "running")

(***************************************************************************)
(* Failure of a request function (specification SpecQueue)                 *)
(***************************************************************************)
\* the calls that hold the in-flight marker of their user
InFlight ==
  {c \in Calls : calls[c].pc = "running" /\ calls[c].marked}

\* C37: when the request function run as the in-flight request of a user
\* fails, the marker of the user is removed in the same step and the call
\* of processUserRequest fails with it; a marker therefore always belongs
\* to an in-flight request that has not settled, and no user stays marked
\* by a request that failed
C37_FailureClearsMarker ==
  /\ [](requestQueue = {calls[c].userId : c \in InFlight})
  /\ [](\A c \in Calls :
          calls[c].pc = "done" => calls[c].outcome = calls[c].settled)
  /\ [][\A c \in Calls :
          (/\ c \in InFlight
           /\ calls'[c].pc = "done"
           /\ calls'[c].settled = "rejected")
            => /\ calls[c].userId \notin requestQueue'
               /\ calls'[c].outcome = "rejected"]_vars

\* the in-flight request of a user has failed, and a later request of that
\* user is in flight
C37_Witness ==
  /\ calls[1].pc = "done"
  /\ calls[1].marked
  /\ calls[1].settled = "rejected"
  /\ calls[1].outcome = "rejected"
  /\ calls[2].pc = "running"
  /\ calls[2].marked
  /\ calls[2].userId = calls[1].userId

(***************************************************************************)
(* The HTTP response of the handler (specification Spec)                   *)
(***************************************************************************)
\* a reply to message i of the payload of request r has been delivered
Replied(r, i) ==
  /\ r.extracted
  /\ r.from = r.messages[i].from
  /\ r.text = (IF Truthy(r.messages[i].body) THEN r.messages[i].body
               ELSE << >>)
  /\ r.delivered = <<r.reply>>

\* C38: the handler sends exactly one HTTP response per POST: 200 when the
\* payload holds no message or the last reply send succeeded, 500 when the
\* reply could not be delivered after its retries; and a POST answered with
\* 200 holds no message whose reply was not delivered
C38_OneResponsePerPost ==
  /\ [](\A s \in Slots :
          LET r == requests[s]
          IN  /\ r.status # 0 <=> r.pc = "done"
              /\ r.status = 200 =>
                   /\ ~r.extracted \/ r.delivered = <<r.reply>>
                   /\ \A i \in DOMAIN r.messages : Replied(r, i)
              /\ (r.pc = "done" /\ r.extracted /\ r.delivered = << >>) =>
                   r.status = 500)
  /\ [][\A s \in Slots :
          (requests[s].pc = "done" /\ requests'[s] # requests[s]) =>
            /\ requests'[s].attempts = 0
            /\ requests'[s].delivered = << >>]_vars

\* C39: handling one inbound message causes at most MAX_RETRIES outbound
\* send attempts in total, whichever branch of the handler takes the
\* message up, the show-all-courses branch with its cached summary included
C39_AtMostMaxRetriesAttempts ==
  \A s \in Slots : requests[s].attempts <= MAX_RETRIES

====
